---- MODULE Spec2Model ----
(***************************************************************************)
(* Event analytics dashboard: the cell parsers, the distribution and       *)
(* daily-series merges, label normalisation and the registration-pace      *)
(* computation of src/utils.py, src/config_helpers.py and src/app.py.      *)
(*                                                                         *)
(* Text is a sequence of one-character strings, so that strip(), the JSON  *)
(* decoder, int() and the date parser are computed character by character. *)
(* A Python value is a record tagged by its type in field t.               *)
(***************************************************************************)
EXTENDS Integers, Sequences, FiniteSets, TLC

VARIABLES
    pc,              \* position: "ready"/"done" for a render of main,
                     \* "label"/"labelled" for one call of normalize_chart_label
    column,          \* header of the sheet column the section of main reads
    cells,           \* that column of the selected rows (filtered_df[column])
    dicts,           \* [safe_json_loads(v) for v in filtered_df[column]]
    merged,          \* outcome of merge_json_dicts(dicts)
    combined_daily,  \* outcome of parse_daily_registrations(cells)
    chart_names,     \* names=[normalize_chart_label(k) ...] handed to the chart
    chart_values,    \* values handed to the chart, parallel to chart_names
    config,          \* what load_event_dashboard_config() returns
    start_val,       \* first selected row's cell of the registration start column
    end_val,         \* first selected row's cell of the registration end column
    pace,            \* the locals of main's "Row 2" when the chart is drawn
    label_key,       \* argument of a call of normalize_chart_label
    label,           \* what that call returned
    frame,           \* the numeric columns of the selected rows (filtered_df)
    kpis,            \* outcome of aggregate_numeric_columns(filtered_df, ...)
    heap,            \* the objects of the process: object id -> its content
    inputs,          \* the cells handed to the merge calls, as the caller made them
    frames,          \* thread -> the frame of its call of a merge operation
    results,         \* the calls that returned: object returned and its content then
    sessions,        \* browser client -> its st.session_state and sheet text box
    auth_file,       \* auth_session.json
    pinned_file,     \* pinned_initiatives.json
    config_file,     \* event_dashboard_config.json
    event,           \* the last thing a client did
    submitted,       \* client -> role of the last valid credentials it submitted
    kept_pins        \* the initiatives pinned and not unpinned since

vars == <<pc, column, cells, dicts, merged, combined_daily,
          chart_names, chart_values, config, start_val, end_val, pace,
          label_key, label, frame, kpis, heap, inputs, frames, results,
          sessions, auth_file, pinned_file, config_file, event, submitted,
          kept_pins>>

callVars == <<heap, inputs, frames, results>>

chartVars == <<pc, column, cells, dicts, merged, combined_daily, chart_names,
               chart_values, config, start_val, end_val, pace, label_key,
               label, frame, kpis>>

siteVars ==
    <<sessions, auth_file, pinned_file, config_file, event, submitted,
      kept_pins>>

----------------------------------------------------------------------------
(* Bounds of the model *)

\* most rows in the selected (filtered) frame
MaxRows == 2

\* most characters in a text key handed to normalize_chart_label
MaxKeyLen == 3

----------------------------------------------------------------------------
(* Characters *)

Digits == {"0", "1", "2", "3", "4", "5", "6", "7", "8", "9"}

DigitValue(c) ==
    CASE c = "0" -> 0 [] c = "1" -> 1 [] c = "2" -> 2 [] c = "3" -> 3
      [] c = "4" -> 4 [] c = "5" -> 5 [] c = "6" -> 6 [] c = "7" -> 7
      [] c = "8" -> 8 [] c = "9" -> 9

\* characters str.strip() and int() treat as whitespace
PyWhitespace == {" ", "\t", "\n", "\r"}

\* whitespace the JSON grammar allows between tokens
JsonWhitespace == {" ", "\t", "\n", "\r"}

\* control characters, which the strict decoder rejects inside a string
ControlChars == {"\t", "\n", "\r"}

----------------------------------------------------------------------------
(* Python values *)

PyNone == [t |-> "None"]
PyInt(n) == [t |-> "int", v |-> n]
PyBool(b) == [t |-> "bool", b |-> b]
\* a finite float m / 10^scale, a NaN, or an infinity
PyFloat(m, scale) == [t |-> "float", k |-> "fin", m |-> m, scale |-> scale]
PyNaN == [t |-> "float", k |-> "nan"]
PyInf == [t |-> "float", k |-> "inf"]
PyNegInf == [t |-> "float", k |-> "-inf"]
PyStr(s) == [t |-> "str", s |-> s]
PyList(items) == [t |-> "list", items |-> items]
PyDict(d) == [t |-> "dict", d |-> d]

\* the outcome of a call: a returned value or a raised exception
Raised(e) == [kind |-> "raise", exc |-> e]

\* a Python dict is a function from its keys to its values; {} is the empty one
EmptyDict == [k \in {} |-> 0]

RECURSIVE Pow10(_)
Pow10(n) == IF n <= 0 THEN 1 ELSE 10 * Pow10(n - 1)

----------------------------------------------------------------------------
(* str.strip() *)

\* LStrip that removes one whitespace character only
LStripOne(s) == IF s # <<>> /\ Head(s) \in PyWhitespace THEN Tail(s) ELSE s

RECURSIVE LStrip(_)
LStrip(s) ==
    IF s # <<>> /\ Head(s) \in PyWhitespace THEN LStrip(Tail(s)) ELSE s

RECURSIVE RStrip(_)
RStrip(s) ==
    IF s # <<>> /\ s[Len(s)] \in PyWhitespace
    THEN RStrip(SubSeq(s, 1, Len(s) - 1))
    ELSE s

Strip(s) == RStrip(LStrip(s))

----------------------------------------------------------------------------
(* json.loads: the decoder of the standard library, for the JSON grammar   *)
(* without backslash escapes and without exponents.  A parse step returns  *)
(* [ok, val, nxt]: the decoded value and the index after it.               *)

Fail == [ok |-> FALSE]
Parsed(v, i) == [ok |-> TRUE, val |-> v, nxt |-> i]

RECURSIVE SkipWs(_, _)
SkipWs(s, i) ==
    IF i <= Len(s) /\ s[i] \in JsonWhitespace THEN SkipWs(s, i + 1) ELSE i

\* does text s hold the word w at index i
HasWord(s, i, w) ==
    /\ i + Len(w) - 1 <= Len(s)
    /\ SubSeq(s, i, i + Len(w) - 1) = w

\* index after the run of digits that starts at i (i itself when there is none)
RECURSIVE DigitsEnd(_, _)
DigitsEnd(s, i) ==
    IF i <= Len(s) /\ s[i] \in Digits THEN DigitsEnd(s, i + 1) ELSE i

\* the number written by the digits s[i..j-1]
RECURSIVE DigitsValue(_, _, _)
DigitsValue(s, i, j) ==
    IF j <= i THEN 0 ELSE 10 * DigitsValue(s, i, j - 1) + DigitValue(s[j - 1])

\* a float m / 10^scale with the trailing zeros of its fraction dropped
RECURSIVE NormFloat(_, _)
NormFloat(m, scale) ==
    IF scale > 0 /\ m % 10 = 0 THEN NormFloat(m \div 10, scale - 1)
    ELSE PyFloat(m, scale)

\* NUMBER_RE: (-?(?:0|[1-9]\d*))(\.\d+)?  -> int without a fraction, else float
\* a: first digit, b: end of the integer part, c: end of the fraction
NumberValue(s, a, b, c, sg) ==
    IF b = a THEN Fail
    ELSE IF c > b
    THEN Parsed(NormFloat(sg * (DigitsValue(s, a, b) * Pow10(c - b - 1)
                                  + DigitsValue(s, b + 1, c)),
                          c - b - 1), c)
    ELSE Parsed(PyInt(sg * DigitsValue(s, a, b)), c)

NumberFraction(s, a, b, sg) ==
    NumberValue(s, a, b,
                IF b <= Len(s) /\ s[b] = "." /\ DigitsEnd(s, b + 1) > b + 1
                THEN DigitsEnd(s, b + 1) ELSE b,
                sg)

NumberInteger(s, a, sg) ==
    NumberFraction(s, a,
                   IF a <= Len(s) /\ s[a] = "0" THEN a + 1 ELSE DigitsEnd(s, a),
                   sg)

ParseNumber(s, i) ==
    IF i <= Len(s) /\ s[i] = "-"
    THEN NumberInteger(s, i + 1, 0 - 1)
    ELSE NumberInteger(s, i, 1)

\* py_scanstring (strict): the characters up to the closing quote
RECURSIVE StringEnd(_, _)
StringEnd(s, i) ==
    IF i > Len(s) THEN 0
    ELSE IF s[i] = "\"" THEN i
    ELSE IF s[i] \in ControlChars \/ s[i] = "\\" THEN 0
    ELSE StringEnd(s, i + 1)

StringUpTo(s, i, e) ==
    IF e = 0 THEN Fail ELSE Parsed(PyStr(SubSeq(s, i + 1, e - 1)), e + 1)

ParseString(s, i) == StringUpTo(s, i, StringEnd(s, i + 1))

RECURSIVE ParseValue(_, _)
RECURSIVE ParseMembers(_, _, _)
RECURSIVE ParseElements(_, _, _)

\* JSONObject: after a pair, "}" ends the object and "," asks for another key
MembersNext(s, e, acc) ==
    IF e > Len(s) THEN Fail
    ELSE IF s[e] = "}" THEN Parsed(PyDict(acc), e + 1)
    ELSE IF s[e] = "," /\ SkipWs(s, e + 1) <= Len(s)
                       /\ s[SkipWs(s, e + 1)] = "\""
    THEN ParseMembers(s, SkipWs(s, e + 1), acc)
    ELSE Fail

\* JSONObject: the pair's value v; a repeated key keeps its last value
MembersValue(s, key, v, acc) ==
    IF ~v.ok THEN Fail
    ELSE MembersNext(s, SkipWs(s, v.nxt),
                     [x \in DOMAIN acc \cup {key} |->
                         IF x = key THEN v.val ELSE acc[x]])

\* JSONObject: the pair's key k, then ":"
MembersKey(s, k, acc) ==
    IF ~k.ok THEN Fail
    ELSE IF SkipWs(s, k.nxt) <= Len(s) /\ s[SkipWs(s, k.nxt)] = ":"
    THEN MembersValue(s, k.val.s,
                      ParseValue(s, SkipWs(s, SkipWs(s, k.nxt) + 1)), acc)
    ELSE Fail

\* JSONObject from the quote of a key at i: pairs until "}"
ParseMembers(s, i, acc) == MembersKey(s, ParseString(s, i), acc)

\* JSONArray: after a value, "]" ends the array and "," asks for another value
ElementsNext(s, v, acc) ==
    IF ~v.ok \/ SkipWs(s, v.nxt) > Len(s) THEN Fail
    ELSE IF s[SkipWs(s, v.nxt)] = "]"
    THEN Parsed(PyList(Append(acc, v.val)), SkipWs(s, v.nxt) + 1)
    ELSE IF s[SkipWs(s, v.nxt)] = ","
    THEN ParseElements(s, SkipWs(s, SkipWs(s, v.nxt) + 1), Append(acc, v.val))
    ELSE Fail

\* JSONArray from a value at i: values until "]"
ParseElements(s, i, acc) == ElementsNext(s, ParseValue(s, i), acc)

\* JSONObject after "{", at the first character j that is no whitespace
ObjectAt(s, j) ==
    IF j > Len(s) THEN Fail
    ELSE IF s[j] = "}" THEN Parsed(PyDict(EmptyDict), j + 1)
    ELSE IF s[j] = "\"" THEN ParseMembers(s, j, EmptyDict)
    ELSE Fail

\* JSONArray after "[", at the first character j that is no whitespace
ArrayAt(s, j) ==
    IF j > Len(s) THEN Fail
    ELSE IF s[j] = "]" THEN Parsed(PyList(<<>>), j + 1)
    ELSE ParseElements(s, j, <<>>)

\* scan_once, from the number on: NUMBER_RE, then NaN and the infinities
NumberOrConstant(s, i, num) ==
    IF num.ok THEN num
    ELSE IF HasWord(s, i, <<"N", "a", "N">>) THEN Parsed(PyNaN, i + 3)
    ELSE IF HasWord(s, i, <<"I", "n", "f", "i", "n", "i", "t", "y">>)
    THEN Parsed(PyInf, i + 8)
    ELSE IF HasWord(s, i, <<"-", "I", "n", "f", "i", "n", "i", "t", "y">>)
    THEN Parsed(PyNegInf, i + 9)
    ELSE Fail

\* scan_once
ParseValue(s, i) ==
    IF i > Len(s) THEN Fail
    ELSE IF s[i] = "\"" THEN ParseString(s, i)
    ELSE IF s[i] = "{" THEN ObjectAt(s, SkipWs(s, i + 1))
    ELSE IF s[i] = "[" THEN ArrayAt(s, SkipWs(s, i + 1))
    ELSE IF HasWord(s, i, <<"n", "u", "l", "l">>) THEN Parsed(PyNone, i + 4)
    ELSE IF HasWord(s, i, <<"t", "r", "u", "e">>) THEN Parsed(PyBool(TRUE), i + 4)
    ELSE IF HasWord(s, i, <<"f", "a", "l", "s", "e">>)
    THEN Parsed(PyBool(FALSE), i + 5)
    ELSE NumberOrConstant(s, i, ParseNumber(s, i))

\* JSONDecoder.decode: one value, whitespace around it, nothing after it;
\* a text that does not decode raises JSONDecodeError
DecodeEnd(s, v) ==
    IF v.ok /\ SkipWs(s, v.nxt) > Len(s)
    THEN [kind |-> "ok", val |-> v.val]
    ELSE Raised("JSONDecodeError")

json_loads(s) == DecodeEnd(s, ParseValue(s, SkipWs(s, 1)))

----------------------------------------------------------------------------
(* Ordering of text (Python compares strings by code point) *)

AsciiOrder ==
    <<"\t", "\n", "\r", " ", "\"", "(", ")", "+", ",", "-", ".", "/",
      "0", "1", "2", "3", "4", "5", "6", "7", "8", "9", ":",
      "I", "N", "T", "U", "[", "\\", "]",
      "a", "b", "d", "e", "f", "i", "k", "l", "n", "o", "r", "s", "t", "u",
      "w", "x", "y", "{", "}">>

Ord(c) == CHOOSE i \in 1..Len(AsciiOrder) : AsciiOrder[i] = c

RECURSIVE StrLess(_, _)
StrLess(a, b) ==
    IF b = <<>> THEN FALSE
    ELSE IF a = <<>> THEN TRUE
    ELSE IF Head(a) # Head(b) THEN Ord(Head(a)) < Ord(Head(b))
    ELSE StrLess(Tail(a), Tail(b))

\* sorted(keys): the keys in ascending order
RECURSIVE SortedKeys(_)

\* SortedFrom that puts the least key last
SortedFromBack(keys, lo) == SortedKeys(keys \ {lo}) \o <<lo>>

SortedFrom(keys, lo) == <<lo>> \o SortedKeys(keys \ {lo})

SortedKeys(keys) ==
    IF keys = {} THEN <<>>
    ELSE SortedFrom(keys, CHOOSE k \in keys : \A o \in keys \ {k} : StrLess(k, o))

----------------------------------------------------------------------------
(* int() and str() of the Python built-ins *)

IntOk(n) == [kind |-> "ok", n |-> n]

\* the digits ds of int(text) after the sign sg
IntOfDigits(ds, sg) ==
    IF ds # <<>> /\ DigitsEnd(ds, 1) = Len(ds) + 1
    THEN IntOk(sg * DigitsValue(ds, 1, Len(ds) + 1))
    ELSE Raised("ValueError")

IntOfStripped(b) ==
    IF b # <<>> /\ Head(b) = "-" THEN IntOfDigits(Tail(b), 0 - 1)
    ELSE IF b # <<>> /\ Head(b) = "+" THEN IntOfDigits(Tail(b), 1)
    ELSE IntOfDigits(b, 1)

\* int(text): whitespace around, an optional sign, then digits only
IntOfText(s) == IntOfStripped(Strip(s))

\* int(x): truncation toward zero for a float; NaN, infinities, text that is
\* no integer and values of other types raise
PyIntOf(x) ==
    CASE x.t = "int" -> IntOk(x.v)
      [] x.t = "bool" -> IntOk(IF x.b THEN 1 ELSE 0)
      [] x.t = "float" ->
            IF x.k = "nan" THEN Raised("ValueError")
            ELSE IF x.k \in {"inf", "-inf"} THEN Raised("OverflowError")
            ELSE IF x.m < 0
            THEN IntOk(0 - ((0 - x.m) \div Pow10(x.scale)))
            ELSE IntOk(x.m \div Pow10(x.scale))
      [] x.t = "str" -> IntOfText(x.s)
      [] OTHER -> Raised("TypeError")

DigitChars == <<"0", "1", "2", "3", "4", "5", "6", "7", "8", "9">>

RECURSIVE NatToText(_)
NatToText(n) ==
    IF n < 10 THEN <<DigitChars[n + 1]>>
    ELSE Append(NatToText(n \div 10), DigitChars[(n % 10) + 1])

\* str(x) for the key types a label can have
PyStrOf(x) ==
    CASE x.t = "str" -> x.s
      [] x.t = "int" -> IF x.v < 0 THEN <<"-">> \o NatToText(0 - x.v)
                        ELSE NatToText(x.v)
      [] x.t = "bool" -> IF x.b THEN <<"T", "r", "u", "e">>
                         ELSE <<"F", "a", "l", "s", "e">>
      [] x.t = "None" -> <<"N", "o", "n", "e">>

----------------------------------------------------------------------------
(* src/utils.py *)

\* LoadedDict without the isinstance(parsed, dict) test
LoadedAny(loaded) ==
    IF loaded.kind = "ok" THEN loaded.val ELSE PyNone

\* safe_json_loads: the result of json.loads, kept only when it is a dict
LoadedDict(loaded) ==
    IF loaded.kind = "ok"
    THEN (IF loaded.val.t = "dict" THEN loaded.val ELSE PyNone)
    ELSE PyNone  \* except (json.JSONDecodeError, TypeError)

\* safe_json_loads: the stripped text of a string cell
LoadsText(text) ==
    IF text = <<>> \/ text \in {<<"{", "}">>, <<"[", "]">>, <<>>}
    THEN PyNone
    ELSE LoadedDict(json_loads(text))

\* safe_json_loads(value): a dict, or None
safe_json_loads(value) ==
    IF value.t = "None" \/ (value.t = "float" /\ value.k = "nan") THEN PyNone
    ELSE IF value.t = "dict" THEN value
    ELSE IF value.t = "str" THEN LoadsText(Strip(value.s))
    ELSE PyNone

\* Python truth of an optional dict: None and {} are false
Truthy(d) == d.t = "dict" /\ DOMAIN d.d # {}

MapOk(m) == [kind |-> "ok", map |-> m]

\* result[key] = 0 for a key not yet in result
WithKey(result, key) ==
    [x \in DOMAIN result \cup {key} |->
        IF x \in DOMAIN result THEN result[x] ELSE 0]

RECURSIVE MergeItems(_, _, _)

\* MergeAdd with "=" written for "+=": a later row replaces the count
MergeAddAssign(result, d, keys, key, add) ==
    IF add.kind = "ok"
    THEN MergeItems([result EXCEPT ![key] = add.n], d, keys \ {key})
    ELSE IF add.exc \in {"TypeError", "ValueError"}
    THEN MergeItems(result, d, keys \ {key})
    ELSE add

\* merge_json_dicts: result[key] += add inside try/except (TypeError, ValueError)
MergeAdd(result, d, keys, key, add) ==
    IF add.kind = "ok"
    THEN MergeItems([result EXCEPT ![key] = @ + add.n], d, keys \ {key})
    ELSE IF add.exc \in {"TypeError", "ValueError"}
    THEN MergeItems(result, d, keys \ {key})
    ELSE add

\* merge_json_dicts: one item of d: int(val) if isinstance(val, (int, float))
MergeItem(result, d, keys, key) ==
    MergeAdd(WithKey(result, key), d, keys, key,
             IF d[key].t \in {"int", "float", "bool"}
             THEN PyIntOf(d[key])
             ELSE IntOk(0))

\* the inner loop of merge_json_dicts over the items of d not yet visited
\* (a dict holds each key once, so the order of the visit does not show)
MergeItems(result, d, keys) ==
    IF keys = {} THEN MapOk(result)
    ELSE MergeItem(result, d, keys, CHOOSE k \in keys : TRUE)

RECURSIVE MergeLoop(_, _, _)

MergeNext(maps, i, r) ==
    IF r.kind = "ok" THEN MergeLoop(maps, i + 1, r.map) ELSE r

\* MergeLoop with "break" written for "continue" at an absent dict
MergeLoopBreak(maps, i, result) ==
    IF i > Len(maps) THEN MapOk(result)
    ELSE IF ~Truthy(maps[i]) THEN MapOk(result)
    ELSE MergeNext(maps, i, MergeItems(result, maps[i].d, DOMAIN maps[i].d))

\* the outer loop of merge_json_dicts, from the i-th dict on
MergeLoop(maps, i, result) ==
    IF i > Len(maps) THEN MapOk(result)
    ELSE IF ~Truthy(maps[i]) THEN MergeLoop(maps, i + 1, result)
    ELSE MergeNext(maps, i, MergeItems(result, maps[i].d, DOMAIN maps[i].d))

\* merge_json_dicts(dicts): key -> summed count, or the exception that escapes
merge_json_dicts(maps) == MergeLoop(maps, 1, EmptyDict)

RECURSIVE DailyItems(_, _, _)

\* parse_daily_registrations: combined[date_str] = combined.get(date_str, 0)
\* + int(count) inside try/except (TypeError, ValueError)
DailyAdd(combined, d, keys, date_str, count) ==
    IF count.kind = "ok"
    THEN DailyItems([WithKey(combined, date_str) EXCEPT ![date_str] = @ + count.n],
                    d, keys \ {date_str})
    ELSE IF count.exc \in {"TypeError", "ValueError"}
    THEN DailyItems(combined, d, keys \ {date_str})
    ELSE count

DailyItem(combined, d, keys, date_str) ==
    DailyAdd(combined, d, keys, date_str, PyIntOf(d[date_str]))

\* the inner loop of parse_daily_registrations
DailyItems(combined, d, keys) ==
    IF keys = {} THEN MapOk(combined)
    ELSE DailyItem(combined, d, keys, CHOOSE k \in keys : TRUE)

\* Series.dropna(): the cells that are neither None nor NaN
IsNa(value) == value.t = "None" \/ (value.t = "float" /\ value.k = "nan")

RECURSIVE DailyLoop(_, _, _)

DailyNext(series, i, r) ==
    IF r.kind = "ok" THEN DailyLoop(series, i + 1, r.map) ELSE r

\* parse_daily_registrations: the dict d of one cell; "if not d: continue"
DailyCell(series, i, combined, d) ==
    IF Truthy(d)
    THEN DailyNext(series, i, DailyItems(combined, d.d, DOMAIN d.d))
    ELSE DailyLoop(series, i + 1, combined)

\* the outer loop of parse_daily_registrations, from the i-th cell on
DailyLoop(series, i, combined) ==
    IF i > Len(series) THEN MapOk(combined)
    ELSE IF IsNa(series[i]) THEN DailyLoop(series, i + 1, combined)
    ELSE DailyCell(series, i, combined, safe_json_loads(series[i]))

\* parse_daily_registrations(series): date -> summed count, or the exception
parse_daily_registrations(series) == DailyLoop(series, 1, EmptyDict)

\* dates and counts of daily_registrations_to_line_data for the sorted keys
LineData(combined, dates) ==
    [dates |-> dates, counts |-> [i \in 1..Len(dates) |-> combined[dates[i]]]]

\* daily_registrations_to_line_data(combined): (dates, counts)
daily_registrations_to_line_data(combined) ==
    IF DOMAIN combined = {}
    THEN [dates |-> <<>>, counts |-> <<>>]
    ELSE LineData(combined, SortedKeys(DOMAIN combined))

Unknown == <<"(", "U", "n", "k", "n", "o", "w", "n", ")">>

\* OrUnknown without the sentinel
KeepEmpty(s) == s

OrUnknown(s) == IF s # <<>> THEN s ELSE Unknown

\* normalize_chart_label(key)
normalize_chart_label(key) ==
    IF key.t = "None" THEN Unknown ELSE OrUnknown(Strip(PyStrOf(key)))

----------------------------------------------------------------------------
(* src/config_helpers.py *)

\* the initiative whose tile is selected (selected_name of main)
selected_name == "Hackathon"

\* config.get(initiative_name)
EntryOf(cfg, name) == IF name \in DOMAIN cfg THEN cfg[name] ELSE PyNone

\* Python truth of a value: None, 0, 0.0, False and the empty text, list and
\* dict are false
PyFalsy(x) ==
    CASE x.t = "None" -> TRUE
      [] x.t = "int" -> x.v = 0
      [] x.t = "bool" -> ~x.b
      [] x.t = "float" -> x.k = "fin" /\ x.m = 0
      [] x.t = "str" -> x.s = <<>>
      [] x.t = "list" -> x.items = <<>>
      [] x.t = "dict" -> DOMAIN x.d = {}
      [] OTHER -> FALSE

\* entry = config.get(initiative_name) or {}
OrEmptyDict(e) == IF PyFalsy(e) THEN PyDict(EmptyDict) ELSE e

\* entry.get("registration_target")
TargetOf(d) ==
    IF "registration_target" \in DOMAIN d THEN d["registration_target"]
    ELSE PyNone

\* try: target = int(target); except (TypeError, ValueError): target = 0
TargetInt(r) ==
    IF r.kind = "ok" THEN r
    ELSE IF r.exc \in {"TypeError", "ValueError"} THEN IntOk(0)
    ELSE r

\* the target of get_event_config: 0 for None and "", int(target) otherwise
ResolveTarget(target) ==
    IF target.t # "None" /\ ~(target.t = "str" /\ target.s = <<>>)
    THEN TargetInt(PyIntOf(target))
    ELSE IntOk(0)

\* the dict get_event_config returns, or the exception int() raised
ConfigOf(r) ==
    IF r.kind = "ok" THEN [kind |-> "ok", registration_target |-> r.n] ELSE r

\* get_event_config for the entry: entry.get on a value that is no dict raises
EntryConfig(entry) ==
    IF entry.t = "dict" THEN ConfigOf(ResolveTarget(TargetOf(entry.d)))
    ELSE Raised("AttributeError")

\* get_event_config(config, initiative_name)
get_event_config(cfg, name) == EntryConfig(OrEmptyDict(EntryOf(cfg, name)))

----------------------------------------------------------------------------
(* Dates: pd.to_datetime(text, errors="coerce", dayfirst=...), for texts of *)
(* the forms D-M-YYYY and YYYY-M-D with "-" or "/" between the fields and  *)
(* an optional time of day " HH:MM"; any other text is coerced to NaT.     *)

NaT == [t |-> "NaT"]

\* a timestamp: days since 1970-01-01 and minutes since midnight
Timestamp(day, mins) == [t |-> "Timestamp", day |-> day, mins |-> mins]

IsLeapYear(y) == (y % 4 = 0 /\ y % 100 # 0) \/ y % 400 = 0

DaysInMonth(y, m) ==
    IF m = 2 THEN (IF IsLeapYear(y) THEN 29 ELSE 28)
    ELSE IF m \in {4, 6, 9, 11} THEN 30
    ELSE 31

\* days from 1970-01-01 to day d of the month mp months after March of the
\* March-based year yy
CivilDays(yy, mp, d) ==
    (yy \div 400) * 146097 + (yy % 400) * 365 + ((yy % 400) \div 4)
      - ((yy % 400) \div 100) + ((153 * mp + 2) \div 5) + d - 1 - 719468

DaysFromCivil(y, m, d) ==
    CivilDays(IF m <= 2 THEN y - 1 ELSE y, (m + 9) % 12, d)

\* the timestamp of y-m-d at mins minutes; NaT when there is no such day,
\* when the time of day is malformed (mins < 0) or the year is out of range
DateOf(y, m, d, mins) ==
    IF /\ y >= 1678 /\ y <= 2261
       /\ m >= 1 /\ m <= 12
       /\ d >= 1 /\ d <= DaysInMonth(y, m)
       /\ mins >= 0
    THEN Timestamp(DaysFromCivil(y, m, d), mins)
    ELSE NaT

\* DayMonthOf without dayfirst: the first field is the month when it can be
MonthDayOf(a, b, y, mins, dayfirst) ==
    IF a <= 12 THEN DateOf(y, a, b, mins) ELSE DateOf(y, b, a, mins)

\* fields a, b and the year: with dayfirst a is the day unless b cannot be a
\* month; without it a is the month unless a cannot be one
DayMonthOf(a, b, y, mins, dayfirst) ==
    IF dayfirst
    THEN (IF b <= 12 THEN DateOf(y, b, a, mins) ELSE DateOf(y, a, b, mins))
    ELSE (IF a <= 12 THEN DateOf(y, a, b, mins) ELSE DateOf(y, b, a, mins))

\* minutes since midnight written from index i on: 0 when the text ends
\* there, -1 when what follows is not " HH:MM"
TimeOfDay(s, i) ==
    IF i > Len(s) THEN 0
    ELSE IF /\ Len(s) = i + 5
            /\ s[i] = " "
            /\ DigitsEnd(s, i + 1) = i + 3
            /\ s[i + 3] = ":"
            /\ DigitsEnd(s, i + 4) = i + 6
            /\ DigitsValue(s, i + 1, i + 3) < 24
            /\ DigitsValue(s, i + 4, i + 6) < 60
    THEN DigitsValue(s, i + 1, i + 3) * 60 + DigitsValue(s, i + 4, i + 6)
    ELSE 0 - 1

\* three fields of digits: s[1..i1-1], s[i1+1..i2-1] and s[i2+1..i3-1]
DateFields(s, i1, i2, i3, dayfirst) ==
    IF i1 = 5 /\ i2 - i1 - 1 \in 1..2 /\ i3 - i2 - 1 \in 1..2
    THEN DateOf(DigitsValue(s, 1, i1), DigitsValue(s, i1 + 1, i2),
                DigitsValue(s, i2 + 1, i3), TimeOfDay(s, i3))
    ELSE IF i1 - 1 \in 1..2 /\ i2 - i1 - 1 \in 1..2 /\ i3 - i2 - 1 = 4
    THEN DayMonthOf(DigitsValue(s, 1, i1), DigitsValue(s, i1 + 1, i2),
                    DigitsValue(s, i2 + 1, i3), TimeOfDay(s, i3), dayfirst)
    ELSE NaT

DateSeparators == {"-", "/"}

DateAfterSecond(s, i1, i2, dayfirst) ==
    IF i2 <= Len(s) /\ s[i2] \in DateSeparators
    THEN DateFields(s, i1, i2, DigitsEnd(s, i2 + 1), dayfirst)
    ELSE NaT

DateAfterFirst(s, i1, dayfirst) ==
    IF i1 <= Len(s) /\ s[i1] \in DateSeparators
    THEN DateAfterSecond(s, i1, DigitsEnd(s, i1 + 1), dayfirst)
    ELSE NaT

\* pd.to_datetime(x, errors="coerce", dayfirst=dayfirst) of a cell or a key
to_datetime(x, dayfirst) ==
    IF x.t = "str" THEN DateAfterFirst(x.s, DigitsEnd(x.s, 1), dayfirst)
    ELSE NaT

\* pd.notna(x)
NotNa(x) ==
    ~(x.t \in {"None", "NaT"} \/ (x.t = "float" /\ x.k = "nan"))

\* dt.normalize(): midnight of the same day
Normalize(ts) == IF ts.t = "Timestamp" THEN Timestamp(ts.day, 0) ELSE ts

Minutes(ts) == ts.day * 1440 + ts.mins

\* (a - b).days: whole days, rounded down
DeltaDays(a, b) == (Minutes(a) - Minutes(b)) \div 1440

PyMax(a, b) == IF a >= b THEN a ELSE b

----------------------------------------------------------------------------
(* main, "Row 2": the registration pace of the daily series *)

RECURSIVE Gcd(_, _)
Gcd(a, b) == IF b = 0 THEN a ELSE Gcd(b, a % b)

\* the float n / d, for d > 0, kept as a fraction in lowest terms
Reduced(n, d, g) ==
    [t |-> "float", k |-> "quot", num |-> n \div g, den |-> d \div g]

PyDiv(n, d) == Reduced(n, d, Gcd(IF n < 0 THEN 0 - n ELSE n, d))

\* the cell of a column the frame does not have
NoColumn == [t |-> "nocol"]

\* the locals of the explicit window when it is not computed
NoWindow ==
    [start_dt |-> PyNone, end_dt |-> PyNone,
     days_from_sheet |-> PyNone, average_daily |-> PyNone]

\* days_from_sheet = max(1, raw_days) and, above one day, the average
WindowDays(reg_target, start_dt, end_dt, days) ==
    [start_dt |-> start_dt, end_dt |-> end_dt,
     days_from_sheet |-> PyInt(days),
     average_daily |-> IF days > 1 THEN PyDiv(reg_target, days)
                       ELSE PyNone]

\* "if pd.notna(start_dt) and pd.notna(end_dt)"
WindowParsed(reg_target, start_dt, end_dt) ==
    IF NotNa(start_dt) /\ NotNa(end_dt)
    THEN WindowDays(reg_target, start_dt, end_dt,
                    PyMax(1, DeltaDays(end_dt, start_dt) + 1))
    ELSE [start_dt |-> start_dt, end_dt |-> end_dt,
          days_from_sheet |-> PyNone, average_daily |-> PyNone]

\* the explicit window of the first selected row
ExplicitWindow(reg_target, start_cell, end_cell) ==
    IF /\ reg_target # 0
       /\ start_cell.t # "nocol" /\ end_cell.t # "nocol"
       /\ NotNa(start_cell) /\ NotNa(end_cell)
    THEN WindowParsed(reg_target, Normalize(to_datetime(start_cell, TRUE)),
                      Normalize(to_datetime(end_cell, TRUE)))
    ELSE NoWindow

PickMin(a, b) == IF StrLess(b, a) THEN b ELSE a

PickMax(a, b) == IF StrLess(a, b) THEN b ELSE a

\* min(dates) and max(dates) of texts
RECURSIVE MinText(_)
MinText(ds) ==
    IF Len(ds) = 1 THEN ds[1] ELSE PickMin(Head(ds), MinText(Tail(ds)))

RECURSIVE MaxText(_)
MaxText(ds) ==
    IF Len(ds) = 1 THEN ds[1] ELSE PickMax(Head(ds), MaxText(Tail(ds)))

\* span_days = max(1, (max_d - min_d).days + 1) when both dates parse
SpanOf(min_d, max_d) ==
    IF NotNa(min_d) /\ NotNa(max_d)
    THEN PyInt(PyMax(1, DeltaDays(max_d, min_d) + 1))
    ELSE PyNone

\* ChartSpan without the test of reg_target
ChartSpanAlways(reg_target, dates) ==
    IF dates # <<>>
    THEN SpanOf(to_datetime(PyStr(MinText(dates)), FALSE),
                to_datetime(PyStr(MaxText(dates)), FALSE))
    ELSE PyNone

\* the span of the chart's dates: "if reg_target and dates"
ChartSpan(reg_target, dates) ==
    IF reg_target # 0 /\ dates # <<>>
    THEN SpanOf(to_datetime(PyStr(MinText(dates)), FALSE),
                to_datetime(PyStr(MaxText(dates)), FALSE))
    ELSE PyNone

\* SpanAverage that lets the span replace every average
SpanAverageAlways(reg_target, win, span_days) ==
    IF span_days.t = "None" THEN win.average_daily
    ELSE PyDiv(reg_target, span_days.v)

\* average_daily after the span: the span replaces a missing average and
\* the average of a window of at most one day
SpanAverage(reg_target, win, span_days) ==
    IF span_days.t = "None" THEN win.average_daily
    ELSE IF \/ win.average_daily.t = "None"
            \/ (win.days_from_sheet.t # "None" /\ win.days_from_sheet.v <= 1)
    THEN PyDiv(reg_target, span_days.v)
    ELSE win.average_daily

\* pd.notna(dt) and dt <= end_ts; a comparison with NaT is false
InRange(dt, end_ts) ==
    NotNa(dt) /\ end_ts.t = "Timestamp" /\ Minutes(dt) <= Minutes(end_ts)

\* mask: which dates of the series are on or before the end date
Mask(dates, end_ts) ==
    [i \in 1..Len(dates) |->
        InRange(Normalize(to_datetime(PyStr(dates[i]), FALSE)), end_ts)]

\* sum(c for c, m in zip(counts, mask) if m), over the first n points
RECURSIVE SumMasked(_, _, _)
SumMasked(counts, mask, n) ==
    IF n = 0 THEN 0
    ELSE SumMasked(counts, mask, n - 1) + (IF mask[n] THEN counts[n] ELSE 0)

\* [d for d, m in zip(dates, mask) if m], over the first n points
RECURSIVE DatesInRange(_, _, _)
DatesInRange(dates, mask, n) ==
    IF n = 0 THEN <<>>
    ELSE IF mask[n] THEN Append(DatesInRange(dates, mask, n - 1), dates[n])
    ELSE DatesInRange(dates, mask, n - 1)

NoRequired ==
    [required_daily_avg |-> PyNone, total_so_far_used |-> PyNone,
     days_remaining_used |-> PyNone]

\* Required without the floor of the remaining target at 0
RequiredUnfloored(reg_target, average_daily, total_so_far, days_remaining) ==
    IF days_remaining > 0
    THEN [required_daily_avg |->
              PyDiv(reg_target - total_so_far, days_remaining),
          total_so_far_used |-> PyInt(total_so_far),
          days_remaining_used |-> PyInt(days_remaining)]
    ELSE IF average_daily.t # "None"
    THEN [required_daily_avg |-> average_daily,
          total_so_far_used |-> PyInt(total_so_far),
          days_remaining_used |-> PyInt(0)]
    ELSE NoRequired

\* the required average for the total so far and the days that remain
Required(reg_target, average_daily, total_so_far, days_remaining) ==
    IF days_remaining > 0
    THEN [required_daily_avg |->
              PyDiv(PyMax(0, reg_target - total_so_far), days_remaining),
          total_so_far_used |-> PyInt(total_so_far),
          days_remaining_used |-> PyInt(days_remaining)]
    ELSE IF average_daily.t # "None"
    THEN [required_daily_avg |-> average_daily,
          total_so_far_used |-> PyInt(total_so_far),
          days_remaining_used |-> PyInt(0)]
    ELSE NoRequired

\* "if any(mask)": last_date is the date of max(dates_in_range)
RequiredFor(reg_target, average_daily, dates, counts, end_ts, mask) ==
    IF \E i \in 1..Len(mask) : mask[i]
    THEN Required(reg_target, average_daily,
                  SumMasked(counts, mask, Len(counts)),
                  DeltaDays(end_ts,
                            Normalize(to_datetime(
                                PyStr(MaxText(DatesInRange(dates, mask,
                                                           Len(dates)))),
                                FALSE))))
    ELSE NoRequired

\* "if reg_target and dates and counts and end_dt is not None"
RequiredAverage(reg_target, average_daily, dates, counts, end_dt) ==
    IF reg_target # 0 /\ dates # <<>> /\ counts # <<>> /\ end_dt.t # "None"
    THEN RequiredFor(reg_target, average_daily, dates, counts,
                     Normalize(end_dt), Mask(dates, Normalize(end_dt)))
    ELSE NoRequired

\* BarColors with green only above the average
BarColorsStrict(counts, average_daily) ==
    IF average_daily.t # "None"
    THEN [kind |-> "each",
          colors |-> [i \in 1..Len(counts) |->
                        IF counts[i] * average_daily.den > average_daily.num
                        THEN "#2ecc71" ELSE "#e74c3c"]]
    ELSE [kind |-> "all", color |-> "#3498db"]

\* green at or above the average, red below it; one blue without an average
BarColors(counts, average_daily) ==
    IF average_daily.t # "None"
    THEN [kind |-> "each",
          colors |-> [i \in 1..Len(counts) |->
                        IF counts[i] * average_daily.den >= average_daily.num
                        THEN "#2ecc71" ELSE "#e74c3c"]]
    ELSE [kind |-> "all", color |-> "#3498db"]

\* the locals of "Row 2" when the figure is built
PaceResult(reg_target, win, span_days, average_daily, req, dates, counts) ==
    [kind |-> "ok",
     reg_target |-> reg_target,
     start_dt |-> win.start_dt,
     end_dt |-> win.end_dt,
     days_from_sheet |-> win.days_from_sheet,
     span_days |-> span_days,
     average_daily |-> average_daily,
     required_daily_avg |-> req.required_daily_avg,
     total_so_far_used |-> req.total_so_far_used,
     days_remaining_used |-> req.days_remaining_used,
     bar_colors |-> BarColors(counts, average_daily),
     dates |-> dates,
     counts |-> counts]

PaceWithAverage(reg_target, win, span_days, average_daily, dates, counts) ==
    PaceResult(reg_target, win, span_days, average_daily,
               RequiredAverage(reg_target, average_daily, dates, counts,
                               win.end_dt),
               dates, counts)

PaceWithSpan(reg_target, win, span_days, dates, counts) ==
    PaceWithAverage(reg_target, win, span_days,
                    SpanAverage(reg_target, win, span_days), dates, counts)

PaceWithWindow(reg_target, win, dates, counts) ==
    PaceWithSpan(reg_target, win, ChartSpan(reg_target, dates), dates, counts)

\* reg_target = event_cfg.get("registration_target") or 0
PaceForConfig(event_cfg, start_cell, end_cell, dates, counts) ==
    IF event_cfg.kind = "raise" THEN event_cfg
    ELSE PaceWithWindow(event_cfg.registration_target,
                        ExplicitWindow(event_cfg.registration_target,
                                       start_cell, end_cell),
                        dates, counts)

\* "if dates and counts": without points there is no chart and no pace
PaceForLine(cfg, start_cell, end_cell, line) ==
    IF line.dates # <<>> /\ line.counts # <<>>
    THEN PaceForConfig(get_event_config(cfg, selected_name), start_cell,
                       end_cell,
                       line.dates, line.counts)
    ELSE [kind |-> "nodata", dates |-> line.dates, counts |-> line.counts]

\* the pace of the daily series, or the exception that ended the render
RegistrationPace(cfg, start_cell, end_cell, combined) ==
    IF combined.kind = "raise" THEN combined
    ELSE PaceForLine(cfg, start_cell, end_cell,
                     daily_registrations_to_line_data(combined.map))

----------------------------------------------------------------------------
(* utils.py: aggregate_numeric_columns *)

NUMERIC_KPI_COLUMNS ==
    <<"Registration Count", "Submission Count", "Teams Count", "Page Visits">>

\* an element of a numeric Series: a finite number kept in tenths, a NaN or
\* an infinity
Fin(n) == [q |-> "fin", tenths |-> n]
NumNaN == [q |-> "nan"]
NumInf == [q |-> "inf"]
NumNegInf == [q |-> "-inf"]

NumNeg(x) ==
    CASE x.q = "fin" -> Fin(0 - x.tenths)
      [] x.q = "inf" -> NumNegInf
      [] x.q = "-inf" -> NumInf
      [] OTHER -> x

\* the spellings of infinity and of NaN a numeric text may have
InfWords == {<<"i", "n", "f">>, <<"I", "n", "f">>, <<"I", "N", "F">>, <<"i", "n", "f", "i", "n", "i", "t", "y">>, <<"I", "n", "f", "i", "n", "i", "t", "y">>}

\* digits, or digits "." digit (the numerals of the cells have at most one
\* decimal): the number in tenths; any other text is coerced to NaN
NumeralAfterPoint(b, e) ==
    IF e = Len(b) + 1 THEN Fin(10 * DigitsValue(b, 1, e))
    ELSE IF b[e] = "." /\ e + 1 = Len(b) /\ b[e + 1] \in Digits
    THEN Fin(10 * DigitsValue(b, 1, e) + DigitValue(b[e + 1]))
    ELSE NumNaN

NumberOfUnsigned(b) ==
    IF b \in InfWords THEN NumInf
    ELSE IF b # <<>> /\ b[1] \in Digits
    THEN NumeralAfterPoint(b, DigitsEnd(b, 1))
    ELSE NumNaN

NumberOfStripped(b) ==
    IF b # <<>> /\ Head(b) = "-" THEN NumNeg(NumberOfUnsigned(Tail(b)))
    ELSE IF b # <<>> /\ Head(b) = "+" THEN NumberOfUnsigned(Tail(b))
    ELSE NumberOfUnsigned(b)

\* pd.to_numeric(..., errors="coerce") of one cell: a number stays, a text
\* that writes a number is that number, everything else is NaN
to_numeric(x) ==
    CASE x.t = "int" -> Fin(10 * x.v)
      [] x.t = "bool" -> Fin(IF x.b THEN 10 ELSE 0)
      [] x.t = "float" ->
            IF x.k = "nan" THEN NumNaN
            ELSE IF x.k = "inf" THEN NumInf
            ELSE IF x.k = "-inf" THEN NumNegInf
            ELSE Fin(x.m * Pow10(1 - x.scale))
      [] x.t = "str" -> NumberOfStripped(Strip(x.s))
      [] OTHER -> NumNaN

\* Series.fillna(0)
fillna(x) == IF x.q = "nan" THEN Fin(0) ELSE x

\* float addition: opposite infinities add up to NaN
NumAdd(a, b) ==
    IF a.q = "nan" \/ b.q = "nan" THEN NumNaN
    ELSE IF a.q = "fin" /\ b.q = "fin" THEN Fin(a.tenths + b.tenths)
    ELSE IF a.q = "fin" THEN b
    ELSE IF b.q = "fin" \/ a.q = b.q THEN a
    ELSE NumNaN

\* Series.sum() of the first n cells of a column
RECURSIVE SeriesSum(_, _)
SeriesSum(col, n) ==
    IF n = 0 THEN Fin(0)
    ELSE NumAdd(SeriesSum(col, n - 1), fillna(to_numeric(col[n])))

\* int(sum): truncation toward zero; NaN and the infinities raise
IntOfSum(x) ==
    IF x.q = "nan" THEN Raised("ValueError")
    ELSE IF x.q \in {"inf", "-inf"} THEN Raised("OverflowError")
    ELSE IF x.tenths < 0 THEN IntOk(0 - ((0 - x.tenths) \div 10))
    ELSE IntOk(x.tenths \div 10)

\* try: result[col] = int(...) except (TypeError, ValueError): result[col] = 0
KpiOrZero(r) ==
    IF r.kind = "raise" /\ r.exc \in {"TypeError", "ValueError"}
    THEN IntOk(0)
    ELSE r

\* the value of one requested column: 0 when df does not have it
ColumnKpi(df, col) ==
    IF col \notin DOMAIN df THEN IntOk(0)
    ELSE KpiOrZero(IntOfSum(SeriesSum(df[col], Len(df[col]))))

RECURSIVE KpiLoop(_, _, _, _)

KpiNext(df, columns, i, result, r) ==
    IF r.kind = "ok"
    THEN KpiLoop(df, columns, i + 1, (columns[i] :> r.n) @@ result)
    ELSE r

\* the loop of aggregate_numeric_columns, from the i-th requested column on
KpiLoop(df, columns, i, result) ==
    IF i > Len(columns) THEN MapOk(result)
    ELSE KpiNext(df, columns, i, result, ColumnKpi(df, columns[i]))

\* aggregate_numeric_columns(df, columns): column -> int, or the exception
\* that escapes
aggregate_numeric_columns(df, columns) == KpiLoop(df, columns, 1, EmptyDict)

----------------------------------------------------------------------------
(* The cells a sheet column can hold *)

Q == "\""

\* text cells: {"a":1}, {"a":2,"b":1} with whitespace around, and so on
CellTexts ==
    { <<>>,
      <<" ", " ">>,
      <<"{", "}">>,
      <<" ", "{", "}", "\n">>,
      <<"[", "]">>,
      <<"{", " ", "}">>,
      <<"{", "b", "a", "d", "}">>,
      <<"[", "1", "]">>,
      <<"3">>,
      <<"{", Q, "a", Q, ":", "1", "}">>,
      <<" ", "{", Q, "a", Q, ":", " ", "2", ",", Q, "b", Q, ":", "1", "}", "\n">>,
      <<"{", Q, "b", Q, ":", "3", ",", Q, "b", Q, ":", "4", "}">>,
      <<"{", Q, "a", Q, ":", Q, "3", Q, "}">>,
      <<"{", Q, "a", Q, ":", Q, "x", Q, "}">>,
      <<"{", Q, "a", Q, ":", "n", "u", "l", "l", "}">>,
      <<"{", Q, "a", Q, ":", "2", ".", "5", "}">>,
      <<"{", Q, "a", Q, ":", "-", "1", "}">>,
      <<"{", Q, "a", Q, ":", "t", "r", "u", "e", "}">>,
      <<"{", Q, "a", Q, ":", "N", "a", "N", "}">>,
      <<"{", Q, "a", Q, ":", "I", "n", "f", "i", "n", "i", "t", "y", "}">>,
      <<"{", Q, "a", Q, ":", "[", "1", "]", ",", Q, "b", Q, ":", "{", "}", "}">>,
      <<"{", Q, Q, ":", "5", ",", Q, "b", Q, ":", "2", "}">>,
      <<"{", Q, " ", Q, ":", "1", ",", Q, " ", "a", Q, ":", "1", "}">>,
      <<"{", Q, "a", Q, ":", "1", ",", "}">>,
      <<"{", Q, "\t", Q, ":", "1", "}">> }

\* every cell: text, a missing value, NaN, a number, an already decoded mapping
CellCatalogue ==
    {PyStr(s) : s \in CellTexts}
      \cup {PyNone, PyNaN, PyInt(5), PyDict((<<"a">> :> PyInt(2)))}

\* the columns of at most MaxRows rows
Columns == UNION {[1..n -> CellCatalogue] : n \in 0..MaxRows}

NotRendered == [kind |-> "none"]

----------------------------------------------------------------------------
(* The inputs of the registration pace *)

\* the config file without an entry for the selected initiative
NoConfig == [n \in {} |-> PyNone]

\* values of "registration_target" in the config file
TargetCatalogue ==
    { PyNone, PyStr(<<>>), PyInt(0), PyInt(4600), PyInt(46),
      PyStr(<<"a", "b", "c">>), PyStr(<<"4", "6", "0", "0">>),
      PyFloat(27, 1), PyFloat(5, 1), PyList(<<PyInt(1)>>),
      PyNaN, PyInf }

\* entries of the selected initiative: null, {}, a text, and a dict with
\* each target
EntryCatalogue ==
    { PyNone, PyDict(EmptyDict), PyStr(<<"o", "o", "p", "s">>),
      PyDict(("dashboard_link" :> PyStr(<<"x">>))) }
      \cup {PyDict(("registration_target" :> v)) : v \in TargetCatalogue}

ConfigCatalogue ==
    {NoConfig} \cup {(selected_name :> e) : e \in EntryCatalogue}

\* cells of the registration start and end columns of the first row
WindowCells ==
    { NoColumn, PyNaN, PyStr(<<>>),
      PyStr(<<"0", "8", "-", "0", "1", "-", "2", "0", "2", "6">>),
      PyStr(<<"2", "2", "-", "0", "2", "-", "2", "0", "2", "6">>),
      PyStr(<<"0", "8", "-", "0", "1", "-", "2", "0", "2", "6", " ", "1", "0", ":", "3", "0">>),
      PyStr(<<"0", "1", "-", "2", "2", "-", "2", "0", "2", "6">>),
      PyStr(<<"3", "1", "-", "0", "2", "-", "2", "0", "2", "6">>),
      PyStr(<<"0", "8", "/", "0", "1", "/", "2", "0", "2", "6">>) }

\* Daily Registrations columns
DailyOneDay ==
    <<PyStr(<<"{", Q, "2", "0", "2", "6", "-", "0", "1", "-", "0", "8", Q, ":",
              "5", "}">>)>>

DailyTwoDays ==
    <<PyStr(<<"{", Q, "2", "0", "2", "6", "-", "0", "1", "-", "0", "8", Q, ":",
              "1", "0", "0", "0", ",", Q, "2", "0", "2", "6", "-", "0", "2",
              "-", "0", "1", Q, ":", "1", "3", "0", "0", "}">>)>>

DailyTwoRows ==
    <<PyStr(<<"{", Q, "2", "0", "2", "6", "-", "0", "1", "-", "0", "8", Q, ":",
              "5", "}">>),
      PyStr(<<"{", Q, "2", "0", "2", "6", "-", "0", "1", "-", "0", "8", Q, ":",
              "2", ",", Q, "2", "0", "2", "6", "-", "0", "2", "-", "2", "2", Q,
              ":", "7", "}">>)>>

DailyAfterEnd ==
    <<PyStr(<<"{", Q, "2", "0", "2", "6", "-", "0", "2", "-", "2", "5", Q, ":",
              "4", "}">>)>>

DailyLong ==
    <<PyStr(<<"{", Q, "2", "0", "2", "6", "-", "0", "1", "-", "0", "8", Q, ":",
              "0", ",", Q, "2", "0", "2", "6", "-", "0", "3", "-", "0", "1", Q,
              ":", "1", "0", "}">>)>>

DailyNoDate ==
    <<PyStr(<<"{", Q, "x", Q, ":", "3", "}">>)>>

DailyMixed ==
    <<PyStr(<<"{", Q, "0", "9", "-", "0", "1", "-", "2", "0", "2", "6", Q, ":",
              "1", ",", Q, "2", "0", "2", "6", "-", "0", "1", "-", "0", "8", Q,
              ":", "2", "}">>)>>

DailyEmpty ==
    <<PyStr(<<>>)>>

DailyInfinite ==
    <<PyStr(<<"{", Q, "2", "0", "2", "6", "-", "0", "1", "-", "0", "8", Q, ":",
              "I", "n", "f", "i", "n", "i", "t", "y", "}">>)>>

DailyEarly ==
    <<PyStr(<<"{", Q, "2", "0", "2", "6", "-", "0", "1", "-", "0", "5", Q, ":",
              "1", "0", "0", ",", Q, "2", "0", "2", "6", "-", "0", "1", "-",
              "0", "9", Q, ":", "1", "}">>)>>

DailyUnpadded ==
    <<PyStr(<<"{", Q, "2", "0", "2", "6", "-", "1", "-", "9", Q, ":", "1", ",",
              Q, "2", "0", "2", "6", "-", "1", "-", "1", "0", Q, ":", "2", "}">>)>>

DailyColumns ==
    { DailyOneDay, DailyTwoDays, DailyTwoRows, DailyAfterEnd, DailyLong,
      DailyNoDate, DailyMixed, DailyEmpty, DailyInfinite, DailyEarly,
      DailyUnpadded }

----------------------------------------------------------------------------
(* The keys handed to normalize_chart_label *)

KeyAlphabet == {" ", "\n", "a", "b"}

\* texts of at most n characters
RECURSIVE TextsUpTo(_)
TextsUpTo(n) ==
    IF n = 0 THEN {<<>>}
    ELSE {<<>>} \cup {<<c>> \o s : c \in KeyAlphabet, s \in TextsUpTo(n - 1)}

KeyCatalogue ==
    {PyStr(s) : s \in TextsUpTo(MaxKeyLen)}
      \cup { PyNone, PyInt(0), PyInt(15), PyInt(0 - 3),
             PyBool(TRUE), PyBool(FALSE),
             PyStr(Unknown), PyStr(<<" ">> \o Unknown \o <<"\n">>) }

NoKey == [t |-> "nokey"]

----------------------------------------------------------------------------
(* The frames handed to aggregate_numeric_columns *)

\* cells of a numeric column: numbers, texts that write a number, texts that
\* do not, empty and missing cells, infinities
KpiCells ==
    { PyInt(5), PyInt(0 - 3), PyFloat(25, 1), PyStr(<<"1", "2">>),
      PyStr(<<"a", "b", "c">>), PyStr(<<>>), PyNaN, PyInf, PyNegInf }

\* cells of the second numeric column
TeamCells == {PyInt(1), PyStr(<<"n", "/", "a">>)}

KpiCellsOf(col) == IF col = "Registration Count" THEN KpiCells ELSE TeamCells

\* the numeric columns a sheet may have
FrameColumns == {"Registration Count", "Teams Count"}

\* pd.DataFrame(): no rows and no columns
EmptyFrame == [c \in {} |-> <<>>]

FramesOf(C, n) ==
    {f \in [C -> UNION {[1..n -> KpiCellsOf(c)] : c \in C}] :
        \A c \in C : \A i \in 1..n : f[c][i] \in KpiCellsOf(c)}

\* frames of at most MaxRows rows with any of the numeric columns
Frames ==
    UNION {FramesOf(C, n) : C \in SUBSET FrameColumns, n \in 0..MaxRows}

----------------------------------------------------------------------------
(* src/auth.py *)

UpperCase ==
    <<"A", "B", "C", "D", "E", "F", "G", "H", "I", "J", "K", "L", "M",
      "N", "O", "P", "Q", "R", "S", "T", "U", "V", "W", "X", "Y", "Z">>

LowerCase ==
    <<"a", "b", "c", "d", "e", "f", "g", "h", "i", "j", "k", "l", "m",
      "n", "o", "p", "q", "r", "s", "t", "u", "v", "w", "x", "y", "z">>

LowerChar(ch) ==
    IF \E i \in 1..26 : UpperCase[i] = ch
    THEN LowerCase[CHOOSE i \in 1..26 : UpperCase[i] = ch]
    ELSE ch

\* str.lower()
Lower(s) == [i \in 1..Len(s) |-> LowerChar(s[i])]

AdminName == <<"a", "d", "m", "i", "n">>
ViewerName == <<"v", "i", "e", "w", "e", "r">>

ROLE_PERMISSIONS ==
    (AdminName :> {"view_dashboard", "edit_sheet", "connect"})
        @@ (ViewerName :> {"view_dashboard"})

\* hashlib.sha256((AUTH_SALT + password).encode()).hexdigest(): two digests
\* are equal exactly when the passwords are
_hash_password(password) == [sha256 |-> password]

USER_STORE ==
    (AdminName :> [password_hash |-> _hash_password(<<"h", "2", "s", "@", "2", "0", "2", "6">>),
                   role |-> AdminName])
        @@ (ViewerName :> [password_hash |-> _hash_password(<<"v", "i", "e", "w", "e", "r", "1", "2", "3">>),
                           role |-> ViewerName])

LoginFailed == [ok |-> FALSE, role |-> PyNone]

\* verify_login once the username is stripped and lowered
VerifyKnown(name, password) ==
    IF name \notin DOMAIN USER_STORE THEN LoginFailed
    ELSE IF USER_STORE[name].password_hash # _hash_password(password)
    THEN LoginFailed
    ELSE [ok |-> TRUE, role |-> PyStr(USER_STORE[name].role)]

verify_login(username, password) ==
    IF username = <<>> \/ password = <<>> THEN LoginFailed
    ELSE VerifyKnown(Lower(Strip(username)), password)

\* ROLE_PERMISSIONS.get(role, set()); role is a text
has_permission(role, permission) ==
    role \in DOMAIN ROLE_PERMISSIONS /\ permission \in ROLE_PERMISSIONS[role]

can_edit_sheet(role) ==
    has_permission(role, "edit_sheet") \/ has_permission(role, "connect")

----------------------------------------------------------------------------
(* src/utils.py: extract_sheet_id *)

IdChars ==
    {UpperCase[i] : i \in 1..26} \cup {LowerCase[i] : i \in 1..26}
        \cup {"0", "1", "2", "3", "4", "5", "6", "7", "8", "9", "_", "-"}

\* the longest prefix of s made of [a-zA-Z0-9_-]
RECURSIVE IdRun(_)
IdRun(s) ==
    IF s # <<>> /\ Head(s) \in IdChars THEN <<Head(s)>> \o IdRun(Tail(s))
    ELSE <<>>

HasPrefix(s, p) == Len(s) >= Len(p) /\ SubSeq(s, 1, Len(p)) = p

\* re.search(r"/d/([a-zA-Z0-9_-]+)", s): group 1 of the leftmost match,
\* the empty text when nothing matches
RECURSIVE SearchId(_)
SearchId(s) ==
    IF s = <<>> THEN <<>>
    ELSE IF HasPrefix(s, <<"/", "d", "/">>) /\ IdRun(SubSeq(s, 4, Len(s))) # <<>>
    THEN IdRun(SubSeq(s, 4, Len(s)))
    ELSE SearchId(Tail(s))

HasPart(s, p) == \E i \in 1..Len(s) : HasPrefix(SubSeq(s, i, Len(s)), p)

\* the whole text as the ID if it has no space and no "://"
RawId(s) ==
    IF s # <<>> /\ ~HasPart(s, <<" ">>) /\ ~HasPart(s, <<":", "/", "/">>)
    THEN s
    ELSE <<>>

IdOfMatch(s, m) == IF m # <<>> THEN m ELSE RawId(s)

extract_sheet_id(value) ==
    IF value = <<>> THEN <<>>
    ELSE IdOfMatch(Strip(value), SearchId(Strip(value)))

----------------------------------------------------------------------------
(* src/config_helpers.py, src/sheets_connector.py: the sheets *)

DEFAULT_SHEET_URL ==
    <<"h", "t", "t", "p", "s", ":", "/", "/", "d", "o", "c", "s", ".", "g", "o", "o", "g", "l", "e", ".", "c", "o", "m", "/", "s", "p", "r", "e", "a", "d", "s", "h", "e", "e", "t", "s", "/", "d", "/", "1", "L", "D", "J", "W", "B", "y", "2", "g", "1", "g", "t", "Q", "K", "_", "u", "1", "v", "w", "w", "h", "M", "A", "R", "n", "B", "I", "s", "i", "j", "I", "M", "E", "g", "S", "C", "2", "w", "x", "B", "K", "7", "2", "E", "/", "e", "d", "i", "t", "?", "g", "i", "d", "=", "1", "9", "1", "8", "6", "8", "6", "0", "2", "4", "#", "g", "i", "d", "=", "1", "9", "1", "8", "6", "8", "6", "0", "2", "4">>

\* the ID of the default sheet and the ID of another sheet
DefaultId == extract_sheet_id(DEFAULT_SHEET_URL)
OtherId == <<"s", "2">>

\* the initiatives of the sheets
Initiatives == {<<"a">>, <<"b">>}

\* load_sheet_data: a frame with rows, of the sheet it was read from
SheetFrame(id, names) ==
    [t |-> "df", sheet |-> id, empty |-> FALSE, hascol |-> TRUE,
     names |-> names]

\* pd.DataFrame() for a sheet without data rows
NoRows(id) ==
    [t |-> "df", sheet |-> id, empty |-> TRUE, hascol |-> FALSE, names |-> {}]

\* a sheet whose header has no "Initiative Name"
NoNameColumn(id) ==
    [t |-> "df", sheet |-> id, empty |-> FALSE, hascol |-> FALSE,
     names |-> {}]

\* what load_sheet_data can return for a sheet: None on any exception
LoadsOf(id) ==
    {PyNone, NoRows(id), NoNameColumn(id), SheetFrame(id, {<<"b">>}),
     SheetFrame(id, Initiatives)}

\* the sheets as Google serves them during one run of the script
Worlds ==
    {(DefaultId :> x) @@ (OtherId :> y) : x \in LoadsOf(DefaultId),
                                           y \in LoadsOf(OtherId)}

\* cached_load_sheet(sheet_id, credentials_path) with the default
\* credentials: opening a spreadsheet that does not exist raises, so None
cached_load_sheet(world, id) ==
    IF id \in DOMAIN world THEN world[id] ELSE PyNone

\* sorted(df["Initiative Name"].dropna().unique().tolist()), [] when the
\* selector lists nothing
initiative_options(df) ==
    IF df.t = "df" /\ ~df.empty /\ df.hascol THEN SortedKeys(df.names)
    ELSE <<>>


----------------------------------------------------------------------------
(* src/app.py: the files and the session state *)

\* the browser clients of the one server process
Clients == {"c1", "c2"}

NoFile == [t |-> "nofile"]

File(data) == [t |-> "file", data |-> data]

\* json.dump({"user": user, "role": role}, f)
save_auth_session(user, role) ==
    File(PyDict(("user" :> user) @@ ("role" :> role)))

NoLogin == [user |-> PyNone, role |-> PyNone]

\* data.get(key) of the parsed file
FileGet(d, key) == IF key \in DOMAIN d THEN d[key] ELSE PyNone

\* (str(data["user"]).strip().lower(), str(data["role"])) when both are true
SavedLogin(user, role) ==
    IF ~PyFalsy(user) /\ ~PyFalsy(role)
    THEN [user |-> PyStr(Lower(Strip(PyStrOf(user)))),
          role |-> PyStr(PyStrOf(role))]
    ELSE NoLogin

load_auth_session(f) ==
    IF f.t = "file" /\ f.data.t = "dict"
    THEN SavedLogin(FileGet(f.data.d, "user"), FileGet(f.data.d, "role"))
    ELSE NoLogin

\* the mutant that leaves the file in place
KeepAuthSession(f) == f

\* if os.path.isfile(AUTH_SESSION_FILE): os.remove(AUTH_SESSION_FILE)
clear_auth_session(f) == IF f.t = "file" THEN NoFile ELSE f

\* json.dump({"pinned": list(pinned_list)}, f)
save_pinned_to_file(pinned_list) ==
    File(PyDict(("pinned" :>
        PyList([i \in 1..Len(pinned_list) |-> PyStr(pinned_list[i])]))))

PinnedOf(d) ==
    IF "pinned" \in DOMAIN d
    THEN [i \in 1..Len(d["pinned"].items) |-> d["pinned"].items[i].s]
    ELSE <<>>

load_pinned_from_file(f) ==
    IF f.t = "file" /\ f.data.t = "dict" THEN PinnedOf(f.data.d) ELSE <<>>

\* load_event_dashboard_config: the dict of the file, {} when it is missing
load_event_dashboard_config(f) == IF f.t = "file" THEN f.data ELSE NoConfig

save_event_dashboard_config(cfg) == File(cfg)

\* a client without a session
Closed ==
    [open |-> FALSE, script |-> "app", authenticated |-> FALSE,
     user |-> PyNone, role |-> PyNone, df_raw |-> PyNone,
     sheet_id_input |-> <<>>, selected_initiatives |-> <<>>,
     pinned_initiatives |-> <<>>, current_page |-> "dashboard",
     editing_event |-> PyNone, box |-> PyNone]

\* st.session_state after the module level of app.py ran in a new session
Restored(login, pins) ==
    [Closed EXCEPT !.open = TRUE,
                   !.authenticated = ~PyFalsy(login.user) /\ ~PyFalsy(login.role),
                   !.user = login.user,
                   !.role = login.role,
                   !.sheet_id_input = DEFAULT_SHEET_URL,
                   !.pinned_initiatives = pins]

NewSession(af, pf) ==
    Restored(load_auth_session(af), load_pinned_from_file(pf))

\* role = st.session_state.role or "viewer"
RoleOr(s) == IF PyFalsy(s.role) THEN ViewerName ELSE s.role.s

\* the text of the sheet box: what was typed, or value=sheet_id_input
Boxed(s) ==
    IF s.box.t = "None" THEN [s EXCEPT !.box = PyStr(s.sheet_id_input)] ELSE s

\* a text box whose value= changed is a new widget showing the new value
Rebox(old_input, s) ==
    IF s.sheet_id_input # old_input
    THEN [s EXCEPT !.box = PyStr(s.sheet_id_input)]
    ELSE s

\* a run that does not draw the sheet box forgets what was typed in it
Unboxed(s) == [s EXCEPT !.box = PyNone]

AutoLoaded(s, df, sheet_id) ==
    IF df.t # "None"
    THEN [s EXCEPT !.df_raw = df, !.sheet_id_input = Strip(sheet_id)]
    ELSE s

\* auto-connect on first load
AutoConnect(s, world, sheet_id) ==
    IF s.df_raw.t = "None" /\ Strip(sheet_id) # <<>>
        /\ extract_sheet_id(sheet_id) # <<>>
    THEN AutoLoaded(s, cached_load_sheet(world, extract_sheet_id(sheet_id)),
                    sheet_id)
    ELSE s

\* the mutant that keeps the previous data when the load fails
ConnectKept(s, df, sheet_id) == AutoLoaded(s, df, sheet_id)

ConnectLoaded(s, df, sheet_id) ==
    IF df.t # "None"
    THEN [s EXCEPT !.df_raw = df, !.sheet_id_input = Strip(sheet_id)]
    ELSE [s EXCEPT !.df_raw = PyNone]

\* if connect_clicked and sheet_id.strip(): ...
ConnectClicked(s, world, sheet_id) ==
    IF Strip(sheet_id) = <<>> THEN s
    ELSE IF extract_sheet_id(sheet_id) = <<>> THEN s
    ELSE ConnectLoaded(s, cached_load_sheet(world, extract_sheet_id(sheet_id)),
                       sheet_id)

\* the expander "Sheet connection" of a role that can edit the sheet
AdminSheet(s, world, connect_clicked) ==
    IF connect_clicked
    THEN ConnectClicked(AutoConnect(s, world, s.box.s), world, s.box.s)
    ELSE AutoConnect(s, world, s.box.s)

ViewerLoaded(s, df) ==
    IF df.t # "None"
    THEN [s EXCEPT !.df_raw = df, !.sheet_id_input = DEFAULT_SHEET_URL]
    ELSE s

\* viewer: auto-connect using defaults only
ViewerSheet(s, world) ==
    IF s.df_raw.t = "None" /\ extract_sheet_id(DEFAULT_SHEET_URL) # <<>>
    THEN ViewerLoaded(s, cached_load_sheet(world,
                                           extract_sheet_id(DEFAULT_SHEET_URL)))
    ELSE s

SheetConnection(s, world, connect_clicked) ==
    IF can_edit_sheet(RoleOr(s))
    THEN Rebox(s.sheet_id_input, AdminSheet(Boxed(s), world, connect_clicked))
    ELSE ViewerSheet(Unboxed(s), world)

\* the mutant that filters nothing
KeptAll(seq, names) == seq

\* [x for x in seq if x in names]
RECURSIVE Kept(_, _)
Kept(seq, names) ==
    IF seq = <<>> THEN <<>>
    ELSE IF Head(seq) \in names THEN <<Head(seq)>> \o Kept(Tail(seq), names)
    ELSE Kept(Tail(seq), names)

\* the names the event selector lists
Listed(s) == {initiative_options(s.df_raw)[i] :
                  i \in 1..Len(initiative_options(s.df_raw))}

\* keep selection and pins in sync with the options of the sheet
Synced(s) ==
    IF s.df_raw.t = "df" /\ ~s.df_raw.empty /\ s.df_raw.hascol
    THEN [s EXCEPT !.selected_initiatives = Kept(@, Listed(s)),
                   !.pinned_initiatives = Kept(@, Listed(s))]
    ELSE s

\* main up to the event selector: the sidebar a run draws before any tile
Sidebar(s, world, connect_clicked) ==
    Synced(SheetConnection(s, world, connect_clicked))

\* one run of app.py: the login page, the settings page or the dashboard
AppRun(s, world, connect_clicked) ==
    IF ~s.authenticated THEN Unboxed(s)
    ELSE IF s.current_page = "event_settings" THEN Unboxed(s)
    ELSE Sidebar(s, world, connect_clicked)

\* the main content is computed: a sheet with rows and a selected event
\* (the local selected_initiatives is [] when the name column is missing)
ContentShown(s) ==
    /\ s.open /\ s.script = "app" /\ s.authenticated
    /\ s.current_page = "dashboard"
    /\ s.df_raw.t = "df" /\ ~s.df_raw.empty /\ s.df_raw.hascol
    /\ s.selected_initiatives # <<>>

\* the main content asks to connect to a sheet
ConnectPrompt(s) ==
    /\ s.open /\ s.script = "app" /\ s.authenticated
    /\ s.current_page = "dashboard"
    /\ s.df_raw.t = "None"

\* the login form is on the page
LoginShown(s) == s.open /\ s.script = "app" /\ ~s.authenticated

\* the text a run of the dashboard takes the sheet from
SheetText(s) ==
    IF can_edit_sheet(RoleOr(s)) THEN Boxed(s).box.s ELSE DEFAULT_SHEET_URL

\* what cached_load_sheet returns for that sheet during the run that starts
\* in s, None when the run draws no dashboard
Fetched(s, world) ==
    IF s.authenticated /\ s.current_page = "dashboard"
    THEN cached_load_sheet(world, extract_sheet_id(SheetText(s)))
    ELSE PyNone

\* what a client did: the control, its argument, and what the sheet load of
\* the run it caused returned
Did(name, c, arg, loaded) ==
    [name |-> name, client |-> c, arg |-> arg, loaded |-> loaded]

\* the process before any browser client connects: no session, no file
NoFiles ==
    /\ auth_file = NoFile
    /\ pinned_file = NoFile
    /\ config_file = NoFile
    /\ kept_pins = {}

\* a render or a call of the utilities alone: no client is modelled
NoSite ==
    /\ sessions = <<>>
    /\ submitted = <<>>
    /\ event = <<>>
    /\ NoFiles

otherVars == <<chartVars, callVars>>

\* a client opens or refreshes the page of app.py: a new session
Load(c, world) ==
    /\ sessions' = [sessions EXCEPT
                      ![c] = AppRun(NewSession(auth_file, pinned_file), world,
                                    FALSE)]
    /\ event' = Did("Load", c, PyNone,
                    Fetched(NewSession(auth_file, pinned_file), world))
    /\ UNCHANGED <<auth_file, pinned_file, config_file, submitted, kept_pins>>
    /\ UNCHANGED otherVars

\* the session of a successful login
SignedIn(s, username, role) ==
    [s EXCEPT !.authenticated = TRUE,
              !.user = PyStr(Lower(Strip(username))),
              !.role = role]

LoginResult(c, username, r, world) ==
    IF r.ok
    THEN /\ sessions' = [sessions EXCEPT
                           ![c] = AppRun(SignedIn(@, username, r.role), world,
                                         FALSE)]
         /\ auth_file' =
                save_auth_session(SignedIn(sessions[c], username, r.role).user,
                                  SignedIn(sessions[c], username, r.role).role)
         /\ submitted' = [submitted EXCEPT ![c] = r.role]
         /\ event' = Did("SubmitLogin", c, PyStr(username),
                         Fetched(SignedIn(sessions[c], username, r.role),
                                 world))
    ELSE /\ UNCHANGED <<sessions, auth_file, submitted>>
         /\ event' = Did("SubmitLogin", c, PyStr(username), PyNone)

\* the form of render_login_page is submitted
SubmitLogin(c, username, password, world) ==
    /\ LoginShown(sessions[c])
    /\ LoginResult(c, username, verify_login(username, password), world)
    /\ UNCHANGED <<pinned_file, config_file, kept_pins>>
    /\ UNCHANGED otherVars

SignedOut(s) ==
    [s EXCEPT !.authenticated = FALSE, !.user = PyNone, !.role = PyNone,
              !.current_page = "dashboard"]

\* "Logout" in the sidebar of the dashboard or of the settings page
Logout(c, world) ==
    /\ sessions[c].open /\ sessions[c].script = "app"
    /\ sessions[c].authenticated
    /\ auth_file' = clear_auth_session(auth_file)
    /\ sessions' = [sessions EXCEPT ![c] = AppRun(SignedOut(@), world, FALSE)]
    /\ event' = Did("Logout", c, PyNone, PyNone)
    /\ UNCHANGED <<pinned_file, config_file, submitted, kept_pins>>
    /\ UNCHANGED otherVars

OnDashboard(s) ==
    /\ s.open /\ s.script = "app" /\ s.authenticated
    /\ s.current_page = "dashboard"

OnSettings(s) ==
    /\ s.open /\ s.script = "app" /\ s.authenticated
    /\ s.current_page = "event_settings"

\* "Event settings" in the sidebar of the dashboard
OpenSettings(c, world) ==
    /\ OnDashboard(sessions[c])
    /\ sessions' = [sessions EXCEPT
                      ![c] = AppRun([@ EXCEPT !.current_page = "event_settings"],
                                    world, FALSE)]
    /\ event' = Did("OpenSettings", c, PyNone, PyNone)
    /\ UNCHANGED <<auth_file, pinned_file, config_file, submitted, kept_pins>>
    /\ UNCHANGED otherVars

\* "Back to Dashboard" in the sidebar of the settings page
BackToDashboard(c, world) ==
    /\ OnSettings(sessions[c])
    /\ sessions' = [sessions EXCEPT
                      ![c] = AppRun([@ EXCEPT !.current_page = "dashboard"],
                                    world, FALSE)]
    /\ event' = Did("BackToDashboard", c, PyNone,
                    Fetched([sessions[c] EXCEPT !.current_page = "dashboard"],
                            world))
    /\ UNCHANGED <<auth_file, pinned_file, config_file, submitted, kept_pins>>
    /\ UNCHANGED otherVars

\* the sheet box of the expander "Sheet connection" is edited
EditSheetBox(c, text, world) ==
    /\ OnDashboard(sessions[c])
    /\ can_edit_sheet(RoleOr(sessions[c]))
    /\ sessions' = [sessions EXCEPT
                      ![c] = AppRun([@ EXCEPT !.box = PyStr(text)], world,
                                    FALSE)]
    /\ event' = Did("EditSheetBox", c, PyStr(text),
                    Fetched([sessions[c] EXCEPT !.box = PyStr(text)], world))
    /\ UNCHANGED <<auth_file, pinned_file, config_file, submitted, kept_pins>>
    /\ UNCHANGED otherVars

\* "Connect" of the expander "Sheet connection"
ClickConnect(c, world) ==
    /\ OnDashboard(sessions[c])
    /\ can_edit_sheet(RoleOr(sessions[c]))
    /\ sessions' = [sessions EXCEPT ![c] = AppRun(@, world, TRUE)]
    /\ event' = Did("ClickConnect", c, PyStr(SheetText(sessions[c])),
                    Fetched(sessions[c], world))
    /\ UNCHANGED <<auth_file, pinned_file, config_file, submitted, kept_pins>>
    /\ UNCHANGED otherVars

----------------------------------------------------------------------------
(* Event settings: render_event_settings_page of src/app.py and            *)
(* src/pages/1_Event_Settings.py                                            *)

\* entry.get(key) or ""
EntryField(d, key) ==
    IF key \in DOMAIN d /\ ~PyFalsy(d[key]) THEN d[key] ELSE PyStr(<<>>)

\* the dict get_event_config returns for an entry whose target it can read
EventConfig(cfg, name) ==
    [dashboard_link |->
         EntryField(OrEmptyDict(EntryOf(cfg, name)).d, "dashboard_link"),
     admin_username |->
         EntryField(OrEmptyDict(EntryOf(cfg, name)).d, "admin_username"),
     admin_password |->
         EntryField(OrEmptyDict(EntryOf(cfg, name)).d, "admin_password"),
     registration_target |-> get_event_config(cfg, name).registration_target]

\* the value of a widget: what was typed, or its value= when left alone
Typed(typed, default) == IF typed.t = "None" THEN default ELSE typed

\* the entry "Save" of render_event_settings_page stores
SavedEntry(entry, link, target) ==
    PyDict(("dashboard_link" :>
                PyStr(Strip(Typed(link, entry.dashboard_link).s)))
        @@ ("admin_username" :> PyStr(Strip(entry.admin_username.s)))
        @@ ("admin_password" :> entry.admin_password)
        @@ ("registration_target" :>
                Typed(target, PyInt(entry.registration_target))))

\* the entry "Save" of pages/1_Event_Settings.py stores
PageSavedEntry(entry, link) ==
    PyDict(("dashboard_link" :>
                PyStr(Strip(Typed(link, entry.dashboard_link).s)))
        @@ ("admin_username" :> PyStr(Strip(entry.admin_username.s)))
        @@ ("admin_password" :> entry.admin_password))

\* config[initiative_name] = entry
WithEntry(cfg, name, entry) == (name :> entry) @@ cfg

\* the page lists the events: a sheet with rows and the name column
EventsListed(s) ==
    s.df_raw.t = "df" /\ ~s.df_raw.empty /\ s.df_raw.hascol

\* the entry of the event can be drawn: get_event_config does not raise and
\* number_input accepts the target
Drawable(cfg, name) ==
    /\ get_event_config(cfg, name).kind = "ok"
    /\ get_event_config(cfg, name).registration_target >= 0

SettingsSame ==
    /\ UNCHANGED <<auth_file, pinned_file, submitted, kept_pins>>
    /\ UNCHANGED otherVars

\* "Edit" of an event on the settings page of app.py
Edit(c, name) ==
    /\ OnSettings(sessions[c]) /\ EventsListed(sessions[c])
    /\ name \in Listed(sessions[c])
    /\ sessions[c].editing_event # PyStr(name)
    /\ sessions' = [sessions EXCEPT ![c].editing_event = PyStr(name)]
    /\ event' = Did("Edit", c, PyStr(name), PyNone)
    /\ UNCHANGED config_file
    /\ SettingsSame

\* "Save" of the event being edited on the settings page of app.py
Save(c, name, link, target) ==
    /\ OnSettings(sessions[c]) /\ EventsListed(sessions[c])
    /\ name \in Listed(sessions[c])
    /\ sessions[c].editing_event = PyStr(name)
    /\ Drawable(load_event_dashboard_config(config_file), name)
    /\ config_file' = save_event_dashboard_config(
           WithEntry(load_event_dashboard_config(config_file), name,
                     SavedEntry(EventConfig(
                         load_event_dashboard_config(config_file), name),
                                link, target)))
    /\ sessions' = [sessions EXCEPT ![c].editing_event = PyNone]
    /\ event' = Did("Save", c, PyStr(name), PyNone)
    /\ SettingsSame

\* "Cancel" of the event being edited on the settings page of app.py
Cancel(c, name) ==
    /\ OnSettings(sessions[c]) /\ EventsListed(sessions[c])
    /\ name \in Listed(sessions[c])
    /\ sessions[c].editing_event = PyStr(name)
    /\ sessions' = [sessions EXCEPT ![c].editing_event = PyNone]
    /\ event' = Did("Cancel", c, PyStr(name), PyNone)
    /\ UNCHANGED config_file
    /\ SettingsSame

OnPage(s) == s.open /\ s.script = "page" /\ s.authenticated

\* the client opens pages/1_Event_Settings.py
PageOpen(c) ==
    /\ sessions[c].open /\ sessions[c].script = "app"
    /\ sessions[c].authenticated
    /\ sessions' = [sessions EXCEPT
                      ![c] = Unboxed([@ EXCEPT !.script = "page"])]
    /\ event' = Did("PageOpen", c, PyNone, PyNone)
    /\ UNCHANGED config_file
    /\ SettingsSame

\* "Back to Dashboard" of the page: st.switch_page("app.py")
PageBack(c, world) ==
    /\ OnPage(sessions[c])
    /\ sessions' = [sessions EXCEPT
                      ![c] = AppRun([@ EXCEPT !.script = "app"], world, FALSE)]
    /\ event' = Did("PageBack", c, PyNone,
                    Fetched([sessions[c] EXCEPT !.script = "app"], world))
    /\ UNCHANGED config_file
    /\ SettingsSame

\* df is None or df.empty
NoEvents(df) == IF df.t = "None" THEN TRUE ELSE df.empty

EventsLoaded(s, df_loaded) ==
    IF ~NoEvents(df_loaded)
    THEN [s EXCEPT !.df_raw = df_loaded]
    ELSE s

\* "Load events" of the page, drawn when no sheet with rows is loaded
PageLoadEvents(c, world) ==
    /\ OnPage(sessions[c])
    /\ NoEvents(sessions[c].df_raw)
    /\ sessions' = [sessions EXCEPT
                      ![c] = EventsLoaded(@, cached_load_sheet(world,
                                 extract_sheet_id(DEFAULT_SHEET_URL)))]
    /\ event' = Did("PageLoadEvents", c, PyNone,
                    cached_load_sheet(world,
                                      extract_sheet_id(DEFAULT_SHEET_URL)))
    /\ UNCHANGED config_file
    /\ SettingsSame

PageEdit(c, name) ==
    /\ OnPage(sessions[c]) /\ EventsListed(sessions[c])
    /\ name \in Listed(sessions[c])
    /\ sessions[c].editing_event # PyStr(name)
    /\ sessions' = [sessions EXCEPT ![c].editing_event = PyStr(name)]
    /\ event' = Did("PageEdit", c, PyStr(name), PyNone)
    /\ UNCHANGED config_file
    /\ SettingsSame

PageSave(c, name, link) ==
    /\ OnPage(sessions[c]) /\ EventsListed(sessions[c])
    /\ name \in Listed(sessions[c])
    /\ sessions[c].editing_event = PyStr(name)
    /\ get_event_config(load_event_dashboard_config(config_file), name).kind
           = "ok"
    /\ config_file' = save_event_dashboard_config(
           WithEntry(load_event_dashboard_config(config_file), name,
                     PageSavedEntry(EventConfig(
                         load_event_dashboard_config(config_file), name),
                                    link)))
    /\ sessions' = [sessions EXCEPT ![c].editing_event = PyNone]
    /\ event' = Did("PageSave", c, PyStr(name), PyNone)
    /\ SettingsSame

PageCancel(c, name) ==
    /\ OnPage(sessions[c]) /\ EventsListed(sessions[c])
    /\ name \in Listed(sessions[c])
    /\ sessions[c].editing_event = PyStr(name)
    /\ sessions' = [sessions EXCEPT ![c].editing_event = PyNone]
    /\ event' = Did("PageCancel", c, PyStr(name), PyNone)
    /\ UNCHANGED config_file
    /\ SettingsSame

----------------------------------------------------------------------------
(* src/app.py main: the event selector.  Its buttons are drawn when a sheet *)
(* with rows and the name column is loaded; the run that handles a click    *)
(* then finds df_raw set and the lists in sync, so the sidebar above the    *)
(* button leaves the session as it is.                                      *)

SelectorDrawn(s) == OnDashboard(s) /\ EventsListed(s)

Elements(seq) == {seq[i] : i \in 1..Len(seq)}

\* [initiative_options[0]] if initiative_options else []
FirstOf(options) == IF options # <<>> THEN <<options[1]>> ELSE <<>>

SelectorSame ==
    /\ UNCHANGED <<auth_file, config_file, submitted>>
    /\ UNCHANGED otherVars

\* "Select first"
SelectFirst(c, world) ==
    /\ SelectorDrawn(sessions[c])
    /\ sessions' = [sessions EXCEPT
           ![c] = AppRun([@ EXCEPT !.selected_initiatives =
                              FirstOf(initiative_options(sessions[c].df_raw))],
                         world, FALSE)]
    /\ event' = Did("SelectFirst", c, PyNone, Fetched(sessions[c], world))
    /\ UNCHANGED <<pinned_file, kept_pins>>
    /\ SelectorSame

\* "Deselect all"
DeselectAll(c, world) ==
    /\ SelectorDrawn(sessions[c])
    /\ sessions' = [sessions EXCEPT
           ![c] = AppRun([@ EXCEPT !.selected_initiatives = <<>>], world,
                         FALSE)]
    /\ event' = Did("DeselectAll", c, PyNone, Fetched(sessions[c], world))
    /\ UNCHANGED <<pinned_file, kept_pins>>
    /\ SelectorSame

\* the selection after a click on the tile of opt
TileClicked(selected, opt) ==
    IF opt \in Elements(selected) THEN <<>> ELSE <<opt>>

\* the tile of an event, among the pinned or the other events
ClickTile(c, opt, world) ==
    /\ SelectorDrawn(sessions[c])
    /\ opt \in Listed(sessions[c])
    /\ sessions' = [sessions EXCEPT
           ![c] = AppRun([@ EXCEPT !.selected_initiatives =
                              TileClicked(@, opt)], world, FALSE)]
    /\ event' = Did("ClickTile", c, PyStr(opt), Fetched(sessions[c], world))
    /\ UNCHANGED <<pinned_file, kept_pins>>
    /\ SelectorSame

\* "Pin" of one of the other events
Pin(c, opt, world) ==
    /\ SelectorDrawn(sessions[c])
    /\ opt \in Listed(sessions[c])
    /\ opt \notin Elements(sessions[c].pinned_initiatives)
    /\ sessions' = [sessions EXCEPT
           ![c] = AppRun([@ EXCEPT !.pinned_initiatives = Append(@, opt)],
                         world, FALSE)]
    /\ pinned_file' =
           save_pinned_to_file(Append(sessions[c].pinned_initiatives, opt))
    /\ kept_pins' = kept_pins \cup {opt}
    /\ event' = Did("Pin", c, PyStr(opt), Fetched(sessions[c], world))
    /\ SelectorSame

\* [x for x in pinned_initiatives if x != opt]
Without(seq, opt) == Kept(seq, Elements(seq) \ {opt})

\* "Unpin" of a pinned event
Unpin(c, opt, world) ==
    /\ SelectorDrawn(sessions[c])
    /\ opt \in Listed(sessions[c])
    /\ opt \in Elements(sessions[c].pinned_initiatives)
    /\ sessions' = [sessions EXCEPT
           ![c] = AppRun([@ EXCEPT !.pinned_initiatives = Without(@, opt)],
                         world, FALSE)]
    /\ pinned_file' =
           save_pinned_to_file(Without(sessions[c].pinned_initiatives, opt))
    /\ kept_pins' = kept_pins \ {opt}
    /\ event' = Did("Unpin", c, PyStr(opt), Fetched(sessions[c], world))
    /\ SelectorSame

----------------------------------------------------------------------------
(* utils.py: calls of merge_json_dicts and parse_daily_registrations, item by
   item, by the threads of the process (one per browser session) *)

Threads == {"t1", "t2"}

\* calls the threads make in all
MaxCalls == 3

CallsMade == frames["t1"].calls + frames["t2"].calls

\* the cells the calls are handed: decoded maps (safe_json_loads returns a
\* cell that is a dict as it is), missing cells and texts
CallCells ==
    { PyNone,
      PyDict((<<"a">> :> PyInt(1))),
      PyDict((<<"a">> :> PyInt(2) @@ <<"b">> :> PyStr(<<"3">>))),
      PyDict((<<"b">> :> PyInf)),
      PyStr(<<"{", Q, "a", Q, ":", "1", ",", Q, "c", Q, ":", "2", "}">>) }

CallInputs == [1..2 -> CallCells]

\* merge_json_dicts is handed optional maps only
OnlyMaps(cs) == \A i \in 1..Len(cs) : cs[i].t \in {"dict", "None"}

\* "result = {}": a dict no other reference points to
EmptyResult == [t |-> "result", map |-> EmptyDict]

\* NewObject where the result is one dict kept between the calls
SharedObject(h) == Cardinality(DOMAIN h)

\* the id of a new object
NewObject(h) == Cardinality(DOMAIN h) + 1

Idle == [st |-> "idle", fn |-> "none", i |-> 0, keys |-> {}, res |-> 0,
         calls |-> 0, overlapped |-> FALSE]

\* one item of merge_json_dicts: the key is created, then the count added
MergeStored(result, add, k) ==
    IF add.kind = "ok"
    THEN MapOk([result EXCEPT ![k] = @ + add.n])
    ELSE IF add.exc \in {"TypeError", "ValueError"} THEN MapOk(result)
    ELSE add

MergeStore(result, d, k) ==
    MergeStored(WithKey(result, k),
                IF d[k].t \in {"int", "float", "bool"} THEN PyIntOf(d[k])
                ELSE IntOk(0),
                k)

\* one item of parse_daily_registrations
DailyStored(combined, count, k) ==
    IF count.kind = "ok"
    THEN MapOk([WithKey(combined, k) EXCEPT ![k] = @ + count.n])
    ELSE IF count.exc \in {"TypeError", "ValueError"} THEN MapOk(combined)
    ELSE count

DailyStore(combined, d, k) == DailyStored(combined, PyIntOf(d[k]), k)

StoreItem(fn, result, d, k) ==
    IF fn = "merge" THEN MergeStore(result, d, k) ELSE DailyStore(result, d, k)

\* the dict the loop of the call reads at its i-th argument, or None
RowOf(fn, h, i) ==
    IF fn = "merge" THEN h[i]
    ELSE IF IsNa(h[i]) THEN PyNone
    ELSE safe_json_loads(h[i])

\* a thread calls merge_json_dicts or parse_daily_registrations with the
\* cells: "result = {}"
Call(t, fn) ==
    /\ frames[t].st \in {"idle", "returned", "raised"}
    /\ CallsMade < MaxCalls
    /\ fn = "merge" => OnlyMaps(inputs)
    /\ heap' = (NewObject(heap) :> EmptyResult) @@ heap
    /\ frames' = [frames EXCEPT ![t] =
                    [st |-> "running", fn |-> fn, i |-> 1, keys |-> {},
                     res |-> NewObject(heap), calls |-> @.calls + 1,
                     overlapped |-> FALSE]]
    /\ UNCHANGED <<inputs, results>>
    /\ UNCHANGED chartVars
    /\ UNCHANGED siteVars

\* "for d in dicts: if not d: continue": the loop reaches its next argument
EnterRow(t, d) ==
    /\ frames' = [frames EXCEPT ![t].i = IF Truthy(d) THEN @ ELSE @ + 1,
                                ![t].keys = IF Truthy(d) THEN DOMAIN d.d
                                            ELSE {}]
    /\ UNCHANGED <<heap, inputs, results>>
    /\ UNCHANGED chartVars
    /\ UNCHANGED siteVars

NextRow(t) ==
    /\ frames[t].st = "running"
    /\ frames[t].keys = {}
    /\ frames[t].i <= Len(inputs)
    /\ EnterRow(t, RowOf(frames[t].fn, heap, frames[t].i))

\* the frame after an item: on to the next row after the last key
AfterItem(f, k, others) ==
    [f EXCEPT !.keys = @ \ {k},
              !.i = IF f.keys = {k} THEN @ + 1 ELSE @,
              !.overlapped = @ \/ others]

Stored(t, k, r) ==
    /\ heap' = IF r.kind = "ok"
               THEN [heap EXCEPT ![frames[t].res].map = r.map]
               ELSE heap
    /\ frames' = [frames EXCEPT ![t] =
                    IF r.kind = "ok"
                    THEN AfterItem(@, k,
                                   \E o \in Threads \ {t} :
                                      frames[o].st = "running"
                                        /\ frames[o].keys # {})
                    ELSE [@ EXCEPT !.st = "raised", !.keys = {}]]
    /\ UNCHANGED <<inputs, results>>
    /\ UNCHANGED chartVars
    /\ UNCHANGED siteVars

\* one pass of the inner loop: "for key, val in d.items()"
Item(t, k) ==
    /\ frames[t].st = "running"
    /\ k \in frames[t].keys
    /\ Stored(t, k,
              StoreItem(frames[t].fn, heap[frames[t].res].map,
                        RowOf(frames[t].fn, heap, frames[t].i).d, k))

\* "return result"
Return(t) ==
    /\ frames[t].st = "running"
    /\ frames[t].keys = {}
    /\ frames[t].i > Len(inputs)
    /\ frames' = [frames EXCEPT ![t].st = "returned"]
    /\ results' = Append(results,
                         [obj |-> frames[t].res, fn |-> frames[t].fn,
                          value |-> heap[frames[t].res].map,
                          overlapped |-> frames[t].overlapped])
    /\ UNCHANGED <<heap, inputs>>
    /\ UNCHANGED chartVars
    /\ UNCHANGED siteVars

\* no merge operation is being called
NoCalls ==
    /\ heap = <<>>
    /\ inputs = <<>>
    /\ frames = [t \in Threads |-> Idle]
    /\ results = <<>>

----------------------------------------------------------------------------
(* main: the charts of one JSON column of the selected rows *)

\* names and values of a chart: normalize_chart_label of each key of merged
\* with the key's count beside it.  A map has no order of its own in the
\* model; names and values list its keys in one common (ascending) order.
NamesOf(ks) == [i \in 1..Len(ks) |-> normalize_chart_label(PyStr(ks[i]))]

ChartNames(m) == NamesOf(SortedKeys(DOMAIN m))

ValuesOf(m, ks) == [i \in 1..Len(ks) |-> m[ks[i]]]

ChartValues(m) == ValuesOf(m, SortedKeys(DOMAIN m))

COL_DAILY_REG == "Daily Registrations"
COL_GENDER == "Gender Distribution"

\* main, "Row 2": the daily series of the Daily Registrations column and
\* its registration pace
RenderDaily ==
    /\ pc = "ready"
    /\ column = COL_DAILY_REG
    /\ combined_daily' = parse_daily_registrations(cells)
    /\ pace' = RegistrationPace(config, start_val, end_val, combined_daily')
    /\ pc' = "done"
    /\ UNCHANGED <<column, cells, dicts, merged, chart_names, chart_values,
                   config, start_val, end_val, label_key, label, frame,
                   kpis>>
    /\ UNCHANGED callVars
    /\ UNCHANGED siteVars

\* main, "Row 3": the pie chart of a distribution column
RenderDistribution ==
    /\ pc = "ready"
    /\ column = COL_GENDER
    /\ dicts' = [i \in 1..Len(cells) |-> safe_json_loads(cells[i])]
    /\ merged' = merge_json_dicts(dicts')
    /\ chart_names' = IF merged'.kind = "ok" /\ DOMAIN merged'.map # {}
                      THEN ChartNames(merged'.map) ELSE <<>>
    /\ chart_values' = IF merged'.kind = "ok" /\ DOMAIN merged'.map # {}
                       THEN ChartValues(merged'.map) ELSE <<>>
    /\ pc' = "done"
    /\ UNCHANGED <<column, cells, combined_daily, config, start_val, end_val,
                   pace, label_key, label, frame, kpis>>
    /\ UNCHANGED callVars
    /\ UNCHANGED siteVars

\* one call of normalize_chart_label
LabelKey ==
    /\ pc = "label"
    /\ label' = normalize_chart_label(label_key)
    /\ pc' = "labelled"
    /\ UNCHANGED <<column, cells, dicts, merged, combined_daily, chart_names,
                   chart_values, config, start_val, end_val, pace,
                   label_key, frame, kpis>>
    /\ UNCHANGED callVars
    /\ UNCHANGED siteVars

\* main, "Row 1": the KPI cards
RenderKpis ==
    /\ pc = "kpi"
    /\ kpis' = aggregate_numeric_columns(frame, NUMERIC_KPI_COLUMNS)
    /\ pc' = "kpi_done"
    /\ UNCHANGED <<column, cells, dicts, merged, combined_daily, chart_names,
                   chart_values, config, start_val, end_val, pace,
                   label_key, label, frame>>
    /\ UNCHANGED callVars
    /\ UNCHANGED siteVars

\* nothing rendered yet
Unrendered ==
    /\ kpis = NotRendered
    /\ dicts = <<>>
    /\ merged = NotRendered
    /\ combined_daily = NotRendered
    /\ chart_names = <<>>
    /\ chart_values = <<>>
    /\ pace = NotRendered
    /\ label = <<>>

\* a column of any cells, no registration target and no window columns
InitCharts ==
    /\ NoCalls
    /\ NoSite
    /\ pc = "ready"
    /\ frame = EmptyFrame
    /\ column \in {COL_DAILY_REG, COL_GENDER}
    /\ cells \in Columns
    /\ config = NoConfig
    /\ start_val = NoColumn
    /\ end_val = NoColumn
    /\ label_key = NoKey
    /\ Unrendered

NextCharts == RenderDaily \/ RenderDistribution

SpecCharts == InitCharts /\ [][NextCharts]_vars

\* a daily series with every config entry and every pair of window cells
InitPace ==
    /\ NoCalls
    /\ NoSite
    /\ pc = "ready"
    /\ frame = EmptyFrame
    /\ column = COL_DAILY_REG
    /\ cells \in DailyColumns
    /\ config \in ConfigCatalogue
    /\ start_val \in WindowCells
    /\ end_val \in WindowCells
    /\ label_key = NoKey
    /\ Unrendered

NextPace == RenderDaily

SpecPace == InitPace /\ [][NextPace]_vars

\* a key for normalize_chart_label, or a distribution column of one row
InitLabel ==
    /\ \/ /\ pc = "label"
          /\ label_key \in KeyCatalogue
          /\ column = COL_GENDER
          /\ cells = <<>>
       \/ /\ pc = "ready"
          /\ label_key = NoKey
          /\ column = COL_GENDER
          /\ cells \in [1..1 -> CellCatalogue]
    /\ config = NoConfig
    /\ start_val = NoColumn
    /\ end_val = NoColumn
    /\ frame = EmptyFrame
    /\ Unrendered
    /\ NoCalls
    /\ NoSite

NextLabel == LabelKey \/ RenderDistribution

SpecLabel == InitLabel /\ [][NextLabel]_vars

\* the selected rows with their numeric columns
InitKpi ==
    /\ NoCalls
    /\ NoSite
    /\ pc = "kpi"
    /\ frame \in Frames
    /\ column = COL_GENDER
    /\ cells = <<>>
    /\ config = NoConfig
    /\ start_val = NoColumn
    /\ end_val = NoColumn
    /\ label_key = NoKey
    /\ Unrendered

NextKpi == RenderKpis

SpecKpi == InitKpi /\ [][NextKpi]_vars

\* no chart is being rendered
NoCharts ==
    /\ pc = "off"
    /\ column = COL_GENDER
    /\ cells = <<>>
    /\ config = NoConfig
    /\ start_val = NoColumn
    /\ end_val = NoColumn
    /\ label_key = NoKey
    /\ frame = EmptyFrame
    /\ Unrendered

\* the cells are objects of the process; no call has begun
InitCalls ==
    /\ inputs \in CallInputs
    /\ heap = inputs
    /\ frames = [t \in Threads |-> Idle]
    /\ results = <<>>
    /\ NoCharts
    /\ NoSite

NextCalls ==
    \/ \E t \in Threads, fn \in {"merge", "daily"} : Call(t, fn)
    \/ \E t \in Threads : NextRow(t)
    \/ \E t \in Threads, k \in {<<"a">>, <<"b">>, <<"c">>} : Item(t, k)
    \/ \E t \in Threads : Return(t)

SpecCalls == InitCalls /\ [][NextCalls]_vars



----------------------------------------------------------------------------
(* Two browser clients logging in and out of the one process *)

InitSite ==
    /\ sessions = [c \in Clients |-> Closed]
    /\ submitted = [c \in Clients |-> PyNone]
    /\ event = Did("none", "c1", PyNone, PyNone)
    /\ NoFiles
    /\ NoCharts
    /\ NoCalls

\* what is typed into the login form
Usernames == {<<>>, <<" ", "A", "d", "m", "i", "n", " ">>, <<"v", "i", "e", "w", "e", "r">>, <<"g", "u", "e", "s", "t">>}
Passwords == {<<"h", "2", "s", "@", "2", "0", "2", "6">>, <<"v", "i", "e", "w", "e", "r", "1", "2", "3">>}

\* both sheets load, with their rows
Served ==
    (DefaultId :> SheetFrame(DefaultId, Initiatives))
        @@ (OtherId :> SheetFrame(OtherId, {<<"b">>}))

NextAuth ==
    \E c \in Clients :
        \/ Load(c, Served)
        \/ \E username \in Usernames, password \in Passwords :
               SubmitLogin(c, username, password, Served)
        \/ Logout(c, Served)
        \/ OpenSettings(c, Served)
        \/ BackToDashboard(c, Served)

SpecAuth == InitSite /\ [][NextAuth]_vars


----------------------------------------------------------------------------
(* One client: logins, refreshes and the sheet connection, whatever the     *)
(* sheets return                                                            *)

Solo == {"c1"}

\* what is typed into the sheet box
BoxTexts ==
    {DEFAULT_SHEET_URL, <<" ", "s", "2", " ">>, <<"u", "/", "d", "/", "s", "2", "#">>, <<"h", "t", "t", "p", ":", "/", "/", "x">>, <<" ", " ">>}

NextConnect ==
    \E c \in Solo, world \in Worlds :
        \/ Load(c, world)
        \/ \E username \in Usernames, password \in Passwords :
               SubmitLogin(c, username, password, world)
        \/ Logout(c, world)
        \/ OpenSettings(c, world)
        \/ BackToDashboard(c, world)
        \/ \E text \in BoxTexts : EditSheetBox(c, text, world)
        \/ ClickConnect(c, world)

SpecConnect == InitSite /\ [][NextConnect]_vars


----------------------------------------------------------------------------
(* One client on the settings pages *)

\* what is typed into "Dashboard link" and "Registration target": nothing,
\* or a new value
LinksTyped == {PyNone, PyStr(<<" ", "x", " ">>)}
TargetsTyped == {PyNone, PyInt(50)}

\* no sheet loads
Unserved == (DefaultId :> PyNone) @@ (OtherId :> PyNone)

NextSettings ==
    \E c \in Solo :
        \/ \E world \in {Served, Unserved} :
              \/ Load(c, world)
              \/ \E username \in Usernames, password \in Passwords :
                     SubmitLogin(c, username, password, world)
              \/ Logout(c, world)
              \/ OpenSettings(c, world)
              \/ BackToDashboard(c, world)
              \/ PageBack(c, world)
              \/ PageLoadEvents(c, world)
        \/ PageOpen(c)
        \/ \E name \in Initiatives :
              \/ Edit(c, name)
              \/ \E link \in LinksTyped, target \in TargetsTyped :
                     Save(c, name, link, target)
              \/ Cancel(c, name)
              \/ PageEdit(c, name)
              \/ \E link \in LinksTyped : PageSave(c, name, link)
              \/ PageCancel(c, name)

SpecSettings == InitSite /\ [][NextSettings]_vars


----------------------------------------------------------------------------
(* One client on the event selector, the sheets changing between runs *)

\* the default sheet lost initiative "a"
Shrunk ==
    (DefaultId :> SheetFrame(DefaultId, {<<"b">>}))
        @@ (OtherId :> SheetFrame(OtherId, {<<"b">>}))

SelectWorlds == {Served, Shrunk, Unserved}

NextSelect ==
    \E c \in Solo, world \in SelectWorlds :
        \/ Load(c, world)
        \/ \E username \in Usernames, password \in Passwords :
               SubmitLogin(c, username, password, world)
        \/ Logout(c, world)
        \/ ClickConnect(c, world)
        \/ SelectFirst(c, world)
        \/ DeselectAll(c, world)
        \/ \E opt \in Initiatives :
              \/ ClickTile(c, opt, world)
              \/ Pin(c, opt, world)
              \/ Unpin(c, opt, world)

SpecSelect == InitSite /\ [][NextSelect]_vars

----------------------------------------------------------------------------
(* Properties of the merges and of the cell parser (SpecCharts) *)

Rows == 1..Len(cells)

\* the permutations of 1..n
Perms(n) == {p \in [1..n -> 1..n] : \A i, j \in 1..n : p[i] = p[j] => i = j}

Permuted(seq, p) == [i \in 1..Len(seq) |-> seq[p[i]]]

\* the rows of seq whose index is in S, in the order of seq
RECURSIVE SubRows(_, _)
SubRows(seq, S) ==
    IF S = {} THEN <<>>
    ELSE LET last == CHOOSE i \in S : \A j \in S : j <= i
         IN  Append(SubRows(seq, S \ {last}), seq[last])

\* two merge outcomes summed key by key
Combine(x, y) ==
    IF x.kind # "ok" THEN x
    ELSE IF y.kind # "ok" THEN y
    ELSE MapOk([k \in DOMAIN x.map \cup DOMAIN y.map |->
                  (IF k \in DOMAIN x.map THEN x.map[k] ELSE 0)
                    + (IF k \in DOMAIN y.map THEN y.map[k] ELSE 0)])

\* C1: whatever the order of the rows, merge_json_dicts returns the map it
\* returned for the column as loaded, and so does parse_daily_registrations.
C1_MergeOrderIndependent ==
    pc = "done" =>
      \A p \in Perms(Len(cells)) :
        /\ column = COL_GENDER =>
             merge_json_dicts(Permuted(dicts, p)) = merged
        /\ column = COL_DAILY_REG =>
             parse_daily_registrations(Permuted(cells, p)) = combined_daily

\* two different rows that both count the same key have been merged
C1_Witness ==
    /\ pc = "done" /\ column = COL_GENDER /\ Len(cells) = 2
    /\ dicts[1] # dicts[2] /\ Truthy(dicts[1]) /\ Truthy(dicts[2])
    /\ merged.kind = "ok"
    /\ \E k \in DOMAIN dicts[1].d \cap DOMAIN dicts[2].d : merged.map[k] >= 3

\* C2: for disjoint sets A and B of rows, merging the rows of A and B at once
\* gives the key-by-key sum of the merge of A and the merge of B, for both
\* merges; when A and B split the whole column that sum is the rendered map.
C2_MergeAdditive ==
    pc = "done" =>
      \A A \in SUBSET Rows : \A B \in SUBSET (Rows \ A) :
        /\ column = COL_GENDER =>
             /\ merge_json_dicts(SubRows(dicts, A \cup B))
                  = Combine(merge_json_dicts(SubRows(dicts, A)),
                            merge_json_dicts(SubRows(dicts, B)))
             /\ A \cup B = Rows =>
                  merged = Combine(merge_json_dicts(SubRows(dicts, A)),
                                   merge_json_dicts(SubRows(dicts, B)))
        /\ column = COL_DAILY_REG =>
             /\ parse_daily_registrations(SubRows(cells, A \cup B))
                  = Combine(parse_daily_registrations(SubRows(cells, A)),
                            parse_daily_registrations(SubRows(cells, B)))
             /\ A \cup B = Rows =>
                  combined_daily
                    = Combine(parse_daily_registrations(SubRows(cells, A)),
                              parse_daily_registrations(SubRows(cells, B)))

\* a daily column of two rows, one with text that is no number, merged
C2_Witness ==
    /\ pc = "done" /\ column = COL_DAILY_REG /\ Len(cells) = 2
    /\ combined_daily.kind = "ok" /\ DOMAIN combined_daily.map # {}
    /\ \E i \in Rows : /\ Truthy(safe_json_loads(cells[i]))
                       /\ \E k \in DOMAIN safe_json_loads(cells[i]).d :
                            safe_json_loads(cells[i]).d[k].t \in {"str", "None"}

\* what a value counts for in a distribution: a number's integer part
\* (a boolean is a Python int), nothing for any other value
NumericCount(val) ==
    CASE val.t = "int" -> val.v
      [] val.t = "bool" -> IF val.b THEN 1 ELSE 0
      [] val.t = "float" /\ val.k = "fin" ->
            IF val.m < 0 THEN 0 - ((0 - val.m) \div Pow10(val.scale))
            ELSE val.m \div Pow10(val.scale)
      [] OTHER -> 0

\* the sum over the rows 1..n of what key counts for in each non-absent map
RECURSIVE KeyTotal(_, _, _)
KeyTotal(maps, key, n) ==
    IF n = 0 THEN 0
    ELSE KeyTotal(maps, key, n - 1)
           + (IF maps[n].t = "dict" /\ key \in DOMAIN maps[n].d
              THEN NumericCount(maps[n].d[key]) ELSE 0)

KeysOf(maps) ==
    UNION {DOMAIN maps[i].d : i \in {j \in 1..Len(maps) : maps[j].t = "dict"}}

\* C3: merge_json_dicts returns a map that holds, for every key of a
\* non-absent input map, the sum of the key's numeric values, absent maps and
\* values that are no numbers adding nothing.
C3_MergeSumsNumericValues ==
    (pc = "done" /\ column = COL_GENDER) =>
       /\ merged.kind = "ok"
       /\ DOMAIN merged.map = KeysOf(dicts)
       /\ \A k \in KeysOf(dicts) : merged.map[k] = KeyTotal(dicts, k, Len(dicts))

\* what a value counts for in a daily series: the integer int() makes of it,
\* nothing when int() refuses it
DailyCount(val) ==
    IF val.t = "str"
    THEN (IF IntOfText(val.s).kind = "ok" THEN IntOfText(val.s).n ELSE 0)
    ELSE NumericCount(val)

RECURSIVE DateTotal(_, _, _)
DateTotal(maps, key, n) ==
    IF n = 0 THEN 0
    ELSE DateTotal(maps, key, n - 1)
           + (IF maps[n].t = "dict" /\ key \in DOMAIN maps[n].d
              THEN DailyCount(maps[n].d[key]) ELSE 0)

DecodeAll(col) == [i \in 1..Len(col) |-> safe_json_loads(col[i])]

\* C4: every date key of a parsed per-row map is a key of the daily series
\* parse_daily_registrations returns, with the sum of its counts as value.
C4_EveryDateKeyKept ==
    (pc = "done" /\ column = COL_DAILY_REG /\ combined_daily.kind = "ok") =>
       \A k \in KeysOf(DecodeAll(cells)) :
          /\ k \in DOMAIN combined_daily.map
          /\ combined_daily.map[k] = DateTotal(DecodeAll(cells), k, Len(cells))

\* C5: no cell content makes merge_json_dicts or parse_daily_registrations
\* raise.
C5_NeverRaises ==
    pc = "done" => merged.kind # "raise" /\ combined_daily.kind # "raise"

\* C6: safe_json_loads returns a mapping or None; a mapping only for a cell
\* that is a mapping or a string whose trimmed text decodes to an object; None
\* for None, NaN, the empty text, "{}", "[]", arrays, scalars, text that does
\* not decode and cells of any other type.
C6_LoadsOnlyObjects ==
    (pc = "done" /\ column = COL_GENDER) =>
       \A i \in Rows :
          /\ dicts[i].t \in {"None", "dict"}
          /\ dicts[i].t = "dict" =>
               \/ cells[i].t = "dict" /\ dicts[i] = cells[i]
               \/ /\ cells[i].t = "str"
                  /\ json_loads(Strip(cells[i].s)) = [kind |-> "ok", val |-> dicts[i]]
          /\ cells[i].t \notin {"dict", "str"} => dicts[i] = PyNone
          /\ cells[i].t = "str" =>
               /\ Strip(cells[i].s) \in {<<>>, <<"{", "}">>, <<"[", "]">>}
                    => dicts[i] = PyNone
               /\ json_loads(Strip(cells[i].s)).kind = "raise" => dicts[i] = PyNone
               /\ ( /\ json_loads(Strip(cells[i].s)).kind = "ok"
                    /\ json_loads(Strip(cells[i].s)).val.t # "dict" )
                    => dicts[i] = PyNone

\* a column with a JSON array, which gives None, beside an object, which is kept
C6_Witness ==
    /\ pc = "done" /\ column = COL_GENDER /\ Len(cells) = 2
    /\ cells[1].t = "str" /\ json_loads(Strip(cells[1].s)).kind = "ok"
    /\ json_loads(Strip(cells[1].s)).val.t = "list" /\ dicts[1] = PyNone
    /\ cells[2].t = "str" /\ Truthy(dicts[2])

----------------------------------------------------------------------------
(* Properties of normalize_chart_label (SpecLabel) *)

\* C7: normalize_chart_label is idempotent: a label it returned, for a key or
\* for a chart, is returned unchanged when it is normalised again.
C7_NormalizeIdempotent ==
    /\ pc = "labelled" => normalize_chart_label(PyStr(label)) = label
    /\ pc = "done" =>
         \A i \in 1..Len(chart_names) :
            normalize_chart_label(PyStr(chart_names[i])) = chart_names[i]

\* a text key with whitespace around a visible text has been normalised
C7_Witness ==
    /\ pc = "labelled" /\ label_key.t = "str"
    /\ label # label_key.s /\ label # Unknown
    /\ Len(label_key.s) >= Len(label) + 2

IsBlank(s) == \A i \in 1..Len(s) : s[i] \in PyWhitespace

\* text r is text s without the whitespace at its two ends
IsTrimOf(r, s) ==
    \E i \in 1..(Len(s) + 1) : \E j \in 0..Len(s) :
       /\ r = SubSeq(s, i, j)
       /\ \A n \in 1..(i - 1) : s[n] \in PyWhitespace
       /\ \A n \in (j + 1)..Len(s) : s[n] \in PyWhitespace
       /\ r # <<>> => (r[1] \notin PyWhitespace /\ r[Len(r)] \notin PyWhitespace)

\* the label a key of a distribution must get
LabelOfText(s) ==
    IF IsBlank(s) THEN Unknown
    ELSE CHOOSE r \in {SubSeq(s, i, j) : i \in 1..Len(s), j \in 1..Len(s)} :
            IsTrimOf(r, s)

\* C8: normalize_chart_label never returns the empty text: a key that is None
\* or blank gives "(Unknown)", any other key gives its text without the
\* surrounding whitespace; the names of a chart are these labels of the keys
\* of the merged distribution, each beside the key's count.
C8_LabelNeverEmpty ==
    /\ pc = "labelled" =>
         /\ label # <<>>
         /\ (label_key.t = "None" \/ (label_key.t = "str" /\ IsBlank(label_key.s)))
              => label = Unknown
         /\ ~(label_key.t = "None" \/ (label_key.t = "str" /\ IsBlank(label_key.s)))
              => IsTrimOf(label, PyStrOf(label_key))
    /\ (pc = "done" /\ merged.kind = "ok") =>
         /\ Len(chart_names) = Cardinality(DOMAIN merged.map)
         /\ Len(chart_values) = Len(chart_names)
         /\ \A i \in 1..Len(chart_names) : chart_names[i] # <<>>
         /\ \A k \in DOMAIN merged.map :
               \E i \in 1..Len(chart_names) :
                  /\ chart_names[i] = LabelOfText(k)
                  /\ chart_values[i] = merged.map[k]

\* a key of nothing but whitespace has been given the label "(Unknown)"
C8_Witness ==
    /\ pc = "labelled" /\ label_key.t = "str" /\ label_key.s # <<>> /\ IsBlank(label_key.s)
    /\ label = Unknown

----------------------------------------------------------------------------
(* Properties of the registration pace (SpecPace) *)

\* the config entry of the selected initiative and its registration_target,
\* as written in the config file (None when there is none)
RawEntry ==
    IF selected_name \in DOMAIN config THEN config[selected_name] ELSE PyNone

RawTarget ==
    IF RawEntry.t = "dict" /\ "registration_target" \in DOMAIN RawEntry.d
    THEN RawEntry.d["registration_target"]
    ELSE PyNone

\* text s is an integer literal: digits after an optional sign, whitespace
\* allowed around
IsIntegerText(s) ==
    \E i \in 1..Len(s) : \E j \in i..Len(s) :
       /\ \A n \in 1..(i - 1) : s[n] \in PyWhitespace
       /\ \A n \in (j + 1)..Len(s) : s[n] \in PyWhitespace
       /\ \/ \A n \in i..j : s[n] \in Digits
          \/ /\ s[i] \in {"+", "-"} /\ j > i
             /\ \A n \in (i + 1)..j : s[n] \in Digits

\* a target that is no number and no integer literal
Unconvertible(raw) ==
    \/ raw.t = "str" /\ raw.s # <<>> /\ ~IsIntegerText(raw.s)
    \/ raw.t \in {"list", "dict"}
    \/ raw.t = "float" /\ raw.k = "nan"

\* a number with a fractional part
Fractional(raw) == raw.t = "float" /\ raw.k = "fin" /\ raw.scale > 0

NoAverages ==
    pace.average_daily = PyNone /\ pace.required_daily_avg = PyNone

\* C9 as stated: a target of 0, a missing entry, a missing or empty target
\* and every target that is no integer resolve to 0, and with a resolved
\* target of 0 the pace has neither a full-period nor a required average.
C9_NonIntegerTargetResolvesToZero ==
    (pc = "done" /\ pace.kind = "ok") =>
       /\ pace.reg_target = 0 => NoAverages
       /\ ( \/ RawTarget \in {PyNone, PyStr(<<>>), PyInt(0)}
            \/ Unconvertible(RawTarget)
            \/ Fractional(RawTarget) ) => pace.reg_target = 0

\* C9, amended: a target of 0, a missing entry, a missing or empty target and
\* a target int() cannot convert (text that is no integer literal, a list,
\* NaN) resolve to 0, a fractional number resolves to its integer part
\* (2.7 to 2, 0.5 to 0); with a resolved target of 0 the pace has neither a
\* full-period nor a required average, whatever the window and the series.
C9_ZeroTargetNoAverages ==
    (pc = "done" /\ pace.kind = "ok") =>
       /\ pace.reg_target = 0 => NoAverages
       /\ ( \/ RawTarget \in {PyNone, PyStr(<<>>), PyInt(0)}
            \/ Unconvertible(RawTarget) ) => pace.reg_target = 0
       /\ Fractional(RawTarget) => pace.reg_target = NumericCount(RawTarget)

\* a target of "abc" resolved to 0 with a window of 46 days and a series of
\* two dates, and no average was computed
C9_Witness ==
    /\ pc = "done" /\ pace.kind = "ok"
    /\ RawTarget = PyStr(<<"a", "b", "c">>)
    /\ start_val = PyStr(<<"0", "8", "-", "0", "1", "-", "2", "0", "2", "6">>)
    /\ end_val = PyStr(<<"2", "2", "-", "0", "2", "-", "2", "0", "2", "6">>)
    /\ Len(pace.dates) = 2
    /\ pace.reg_target = 0 /\ NoAverages

\* the number written by the two, or four, digits of s from index i
TwoDigits(s, i) == 10 * DigitValue(s[i]) + DigitValue(s[i + 1])

FourDigits(s, i) == 100 * TwoDigits(s, i) + TwoDigits(s, i + 2)

MonthLengths == <<31, 28, 31, 30, 31, 30, 31, 31, 30, 31, 30, 31>>

MonthLength(y, m) ==
    IF m = 2 /\ ((y % 4 = 0 /\ y % 100 # 0) \/ y % 400 = 0) THEN 29
    ELSE MonthLengths[m]

\* days from 1 Jan 1970 to 1 Jan of year y, for y >= 1970
RECURSIVE DaysBeforeYear(_)
DaysBeforeYear(y) ==
    IF y <= 1970 THEN 0
    ELSE DaysBeforeYear(y - 1) + 337 + MonthLength(y - 1, 2)

\* days from 1 Jan of year y to the first of month m
RECURSIVE DaysBeforeMonth(_, _)
DaysBeforeMonth(y, m) ==
    IF m <= 1 THEN 0
    ELSE DaysBeforeMonth(y, m - 1) + MonthLength(y, m - 1)

\* days from 1 Jan 1970 to the day d of month m of year y
OrdinalDay(y, m, d) == DaysBeforeYear(y) + DaysBeforeMonth(y, m) + d - 1

\* a cell with a text DD-MM-YYYY, or DD/MM/YYYY, of a day that exists, with
\* or without a time of day HH:MM after it
IsDayFirstText(x) ==
    /\ x.t = "str"
    /\ Len(x.s) \in {10, 16}
    /\ \A i \in {1, 2, 4, 5, 7, 8, 9, 10} : x.s[i] \in Digits
    /\ x.s[3] \in {"-", "/"} /\ x.s[6] \in {"-", "/"}
    /\ FourDigits(x.s, 7) >= 1970
    /\ TwoDigits(x.s, 4) \in 1..12
    /\ TwoDigits(x.s, 1) \in 1..MonthLength(FourDigits(x.s, 7), TwoDigits(x.s, 4))
    /\ Len(x.s) = 16 =>
         /\ x.s[11] = " " /\ x.s[14] = ":"
         /\ \A i \in {12, 13, 15, 16} : x.s[i] \in Digits
         /\ TwoDigits(x.s, 12) < 24 /\ TwoDigits(x.s, 15) < 60

\* the day a day-first text names
DayOfText(x) ==
    OrdinalDay(FourDigits(x.s, 7), TwoDigits(x.s, 4), TwoDigits(x.s, 1))

\* C10: with a target set, start and end texts of the form DD-MM-YYYY are
\* read day first and at midnight of their day, and the inclusive day count
\* is (end - start in days) + 1, or 1 when that is less than 1; "08-01-2026"
\* and "22-02-2026" give 8 Jan 2026, 22 Feb 2026 and 46 days.
C10_DayFirstInclusiveDays ==
    ( /\ pc = "done" /\ pace.kind = "ok" /\ pace.reg_target # 0
      /\ IsDayFirstText(start_val) /\ IsDayFirstText(end_val) ) =>
       /\ pace.start_dt = Timestamp(DayOfText(start_val), 0)
       /\ pace.end_dt = Timestamp(DayOfText(end_val), 0)
       /\ pace.days_from_sheet =
            PyInt(IF DayOfText(end_val) - DayOfText(start_val) + 1 >= 1
                  THEN DayOfText(end_val) - DayOfText(start_val) + 1
                  ELSE 1)
       /\ ( /\ start_val = PyStr(<<"0", "8", "-", "0", "1", "-", "2", "0", "2", "6">>)
            /\ end_val = PyStr(<<"2", "2", "-", "0", "2", "-", "2", "0", "2", "6">>) ) =>
            /\ pace.start_dt = Timestamp(OrdinalDay(2026, 1, 8), 0)
            /\ pace.end_dt = Timestamp(OrdinalDay(2026, 2, 22), 0)
            /\ pace.days_from_sheet = PyInt(46)

\* the window "08-01-2026" to "22-02-2026" was counted as 46 days
C10_Witness ==
    /\ pc = "done" /\ pace.kind = "ok" /\ pace.reg_target = 4600
    /\ start_val = PyStr(<<"0", "8", "-", "0", "1", "-", "2", "0", "2", "6">>)
    /\ end_val = PyStr(<<"2", "2", "-", "0", "2", "-", "2", "0", "2", "6">>)
    /\ pace.days_from_sheet = PyInt(46)
    /\ pace.average_daily = PyDiv(100, 1)


\* a nonzero target and a parsed explicit window of more than one day
HasLongWindow ==
    /\ pc = "done" /\ pace.kind = "ok" /\ pace.reg_target # 0
    /\ pace.days_from_sheet.t = "int" /\ pace.days_from_sheet.v > 1

\* the float x is the quotient n / d
IsQuotient(x, n, d) ==
    x.t = "float" /\ x.den > 0 /\ x.num * d = n * x.den

\* C11: with a nonzero target and an explicit window of more than one day the
\* full-period average is the target divided by the window's inclusive day
\* count, whatever dates the daily series has; 4600 over 46 days is 100.
C11_ExplicitWindowAverage ==
    HasLongWindow =>
       /\ IsQuotient(pace.average_daily, pace.reg_target,
                     pace.days_from_sheet.v)
       /\ (pace.reg_target = 4600 /\ pace.days_from_sheet.v = 46) =>
            (pace.average_daily.num = 100 /\ pace.average_daily.den = 1)

\* target 4600 over the 46 days of the window gave 100 a day although the
\* series spans the 53 days from 8 Jan to 1 Mar
C11_Witness ==
    /\ HasLongWindow /\ cells = DailyLong
    /\ pace.reg_target = 4600 /\ pace.days_from_sheet = PyInt(46)
    /\ pace.span_days = PyInt(53)
    /\ pace.average_daily.num = 100 /\ pace.average_daily.den = 1


\* the day a key of the series names (NaT for a key that is no date)
KeyDate(d) == to_datetime(PyStr(d), FALSE)

AllKeysAreDates ==
    \A i \in 1..Len(pace.dates) : KeyDate(pace.dates[i]).t = "Timestamp"

SeriesDays == {KeyDate(pace.dates[i]).day : i \in 1..Len(pace.dates)}

SetMax(S) == CHOOSE x \in S : \A y \in S : y <= x

SetMin(S) == CHOOSE x \in S : \A y \in S : x <= y

\* inclusive days from the earliest to the latest date of the series
SeriesSpan ==
    IF SetMax(SeriesDays) - SetMin(SeriesDays) + 1 >= 1
    THEN SetMax(SeriesDays) - SetMin(SeriesDays) + 1
    ELSE 1

\* C12: with a nonzero target and an explicit window that is absent,
\* unparseable or of at most one day, the full-period average is the target
\* divided by the inclusive days from the earliest to the latest date of the
\* series; with an explicit window of more than one day the span is not used.
C12_SpanFallbackAverage ==
    ( /\ pc = "done" /\ pace.kind = "ok" /\ pace.reg_target # 0
      /\ AllKeysAreDates ) =>
       /\ (pace.days_from_sheet.t = "None" \/ pace.days_from_sheet.v <= 1) =>
            IsQuotient(pace.average_daily, pace.reg_target, SeriesSpan)
       /\ (pace.days_from_sheet.t = "int" /\ pace.days_from_sheet.v > 1) =>
            IsQuotient(pace.average_daily, pace.reg_target,
                       pace.days_from_sheet.v)


\* a rendered pace with a nonzero target and a known end date
EndKnown ==
    /\ pc = "done" /\ pace.kind = "ok" /\ pace.reg_target # 0
    /\ pace.end_dt.t = "Timestamp"

\* the points of the series whose date is on or before the end date
PointsToEnd ==
    {i \in 1..Len(pace.dates) :
        /\ KeyDate(pace.dates[i]).t = "Timestamp"
        /\ KeyDate(pace.dates[i]).day <= pace.end_dt.day}

RECURSIVE CountsOver(_)
CountsOver(S) ==
    IF S = {} THEN 0
    ELSE pace.counts[SetMax(S)] + CountsOver(S \ {SetMax(S)})

RemainingTarget ==
    IF pace.reg_target - CountsOver(PointsToEnd) >= 0
    THEN pace.reg_target - CountsOver(PointsToEnd)
    ELSE 0

\* C13: with a nonzero target, a known end date and a series date on or
\* before it, the total so far is the sum of the counts of exactly those
\* dates; when the days that remain are positive the required average is
\* max(0, target - total) / days and is reported with that total and those
\* days, and days remain whenever the end date is after every such date
\* (target 4600, total 2300, 21 days: 2300/21).
C13_RequiredAverage ==
    (EndKnown /\ PointsToEnd # {}) =>
       /\ pace.total_so_far_used.t = "int" =>
            pace.total_so_far_used.v = CountsOver(PointsToEnd)
       /\ (\A i \in PointsToEnd :
              KeyDate(pace.dates[i]).day < pace.end_dt.day) =>
            /\ pace.days_remaining_used.t = "int"
            /\ pace.days_remaining_used.v > 0
       /\ (pace.days_remaining_used.t = "int"
             /\ pace.days_remaining_used.v > 0) =>
            /\ pace.total_so_far_used = PyInt(CountsOver(PointsToEnd))
            /\ IsQuotient(pace.required_daily_avg, RemainingTarget,
                          pace.days_remaining_used.v)
            /\ \E i \in PointsToEnd :
                  pace.days_remaining_used.v =
                     pace.end_dt.day - KeyDate(pace.dates[i]).day
       /\ ( /\ pace.reg_target = 4600
            /\ pace.total_so_far_used = PyInt(2300)
            /\ pace.days_remaining_used = PyInt(21) ) =>
            (pace.required_daily_avg.num = 2300
               /\ pace.required_daily_avg.den = 21)

C13_Witness ==
    /\ EndKnown /\ cells = DailyTwoDays
    /\ pace.reg_target = 4600
    /\ PointsToEnd = {1, 2}
    /\ pace.total_so_far_used = PyInt(2300)
    /\ pace.days_remaining_used = PyInt(21)
    /\ pace.required_daily_avg.num = 2300
    /\ pace.required_daily_avg.den = 21


\* the days of the keys of the series that are dates
ObservedDays ==
    {KeyDate(pace.dates[i]).day :
        i \in {j \in 1..Len(pace.dates) :
                  KeyDate(pace.dates[j]).t = "Timestamp"}}

\* C14: when the last observed date of the series is on or after the
\* resolved end date, and a target and a full-period average exist, the days
\* that remain are 0 and the required average is the full-period average.
C14_PeriodEndedRequiredIsAverage ==
    ( /\ EndKnown /\ pace.average_daily.t # "None"
      /\ ObservedDays # {}
      /\ SetMax(ObservedDays) >= pace.end_dt.day ) =>
       /\ pace.days_remaining_used = PyInt(0)
       /\ pace.required_daily_avg = pace.average_daily


\* C15: every window the pace uses has its end on or after its start; when
\* the explicit dates resolve to no such window (the end date is before the
\* start date) no value of the forecast comes from them.
C15_ReversedWindowNoForecast ==
    ( /\ pc = "done" /\ pace.kind = "ok"
      /\ pace.start_dt.t = "Timestamp" /\ pace.end_dt.t = "Timestamp"
      /\ pace.end_dt.day < pace.start_dt.day ) =>
       /\ pace.required_daily_avg.t = "None"
       /\ pace.total_so_far_used.t = "None"
       /\ pace.days_remaining_used.t = "None"


\* the integer a finite sum of tenths is cut to
WholePart(n) == IF n < 0 THEN 0 - ((0 - n) \div 10) ELSE n \div 10

\* what a cell counts in the sum of its column, in tenths: a non-numeric or
\* empty cell counts zero
RECURSIVE ColumnTenths(_, _)
ColumnTenths(col, n) ==
    IF n = 0 THEN 0
    ELSE ColumnTenths(col, n - 1)
           + (IF to_numeric(col[n]).q = "fin" THEN to_numeric(col[n]).tenths
              ELSE 0)

\* C16: aggregate_numeric_columns returns, for every requested column, the
\* integer sum of the column with non-numeric and empty cells counted as
\* zero, 0 for a column the rows do not have, and never an error.
C16_KpisAreIntegerSums ==
    pc = "kpi_done" =>
       /\ kpis.kind = "ok"
       /\ \A i \in 1..Len(NUMERIC_KPI_COLUMNS) :
             kpis.map[NUMERIC_KPI_COLUMNS[i]] =
                IF NUMERIC_KPI_COLUMNS[i] \in DOMAIN frame
                THEN WholePart(ColumnTenths(frame[NUMERIC_KPI_COLUMNS[i]],
                                 Len(frame[NUMERIC_KPI_COLUMNS[i]])))
                ELSE 0


\* text a is before text b, character by character by code point; a proper
\* prefix is before the longer text
LexBefore(a, b) ==
    \E i \in 1..Len(b) :
       /\ \A j \in 1..(i - 1) : j <= Len(a) /\ a[j] = b[j]
       /\ (i > Len(a) \/ (i <= Len(a) /\ Ord(a[i]) < Ord(b[i])))

\* the render reached the line chart's data
LineDrawn ==
    /\ pc = "done" /\ combined_daily.kind = "ok"
    /\ pace.kind \in {"ok", "nodata"}

\* equal lengths, every key once, each count beside its date
LineDataPairsKeys ==
    /\ Len(pace.dates) = Len(pace.counts)
    /\ Len(pace.dates) = Cardinality(DOMAIN combined_daily.map)
    /\ \A k \in DOMAIN combined_daily.map :
          Cardinality({i \in 1..Len(pace.dates) : pace.dates[i] = k}) = 1
    /\ \A i \in 1..Len(pace.dates) :
          /\ pace.dates[i] \in DOMAIN combined_daily.map
          /\ pace.counts[i] = combined_daily.map[pace.dates[i]]
    /\ (DOMAIN combined_daily.map = {}) =>
          (pace.dates = <<>> /\ pace.counts = <<>>)

\* C17 (as stated): the two sequences have one length, hold every date key
\* once with its count beside it, and ascend in lexicographic order and in
\* date order; an empty input gives two empty sequences.
C17_LineDataAscendsByDate ==
    LineDrawn =>
       /\ LineDataPairsKeys
       /\ \A i \in 1..(Len(pace.dates) - 1) :
             /\ LexBefore(pace.dates[i], pace.dates[i + 1])
             /\ ( /\ KeyDate(pace.dates[i]).t = "Timestamp"
                  /\ KeyDate(pace.dates[i + 1]).t = "Timestamp" ) =>
                  KeyDate(pace.dates[i]).day < KeyDate(pace.dates[i + 1]).day

\* C17 (amended): the two sequences have one length, hold every date key
\* once with its count beside it, and ascend in the lexicographic order of
\* the key texts; an empty input gives two empty sequences.
C17_LineDataAscendsByText ==
    LineDrawn =>
       /\ LineDataPairsKeys
       /\ \A i \in 1..(Len(pace.dates) - 1) :
             LexBefore(pace.dates[i], pace.dates[i + 1])

C17_Witness ==
    /\ LineDrawn /\ cells = DailyUnpadded
    /\ pace.dates = <<<<"2", "0", "2", "6", "-", "1", "-", "1", "0">>, <<"2", "0", "2", "6", "-", "1", "-", "9">>>>
    /\ pace.counts = <<2, 1>>


\* the count is at or above the full-period average num / den
AtOrAboveAverage(count) ==
    count * pace.average_daily.den >= pace.average_daily.num

\* C18: with a full-period average every point of the daily chart is green
\* exactly when its count is at or above the average and red exactly when
\* it is below; without an average all points get the one default colour.
C18_PointColours ==
    (pc = "done" /\ pace.kind = "ok") =>
       IF pace.average_daily.t # "None"
       THEN /\ pace.bar_colors.kind = "each"
            /\ Len(pace.bar_colors.colors) = Len(pace.counts)
            /\ \A i \in 1..Len(pace.counts) :
                  /\ pace.bar_colors.colors[i] \in {"#2ecc71", "#e74c3c"}
                  /\ pace.bar_colors.colors[i] = "#2ecc71"
                        <=> AtOrAboveAverage(pace.counts[i])
                  /\ pace.bar_colors.colors[i] = "#e74c3c"
                        <=> ~AtOrAboveAverage(pace.counts[i])
       ELSE pace.bar_colors = [kind |-> "all", color |-> "#3498db"]

C18_Witness ==
    /\ pc = "done" /\ pace.kind = "ok" /\ cells = DailyEarly
    /\ pace.average_daily.t = "float"
    /\ pace.average_daily.num = 100 /\ pace.average_daily.den = 1
    /\ pace.counts = <<100, 1>>
    /\ pace.bar_colors.colors = <<"#2ecc71", "#e74c3c">>


\* a distribution chart was drawn from the merged counts
DistributionDrawn ==
    /\ pc = "done" /\ column = COL_GENDER
    /\ merged.kind = "ok" /\ DOMAIN merged.map # {}

\* the keys of the merged counts whose label is lbl
KeysLabelled(lbl) ==
    {k \in DOMAIN merged.map : normalize_chart_label(PyStr(k)) = lbl}

RECURSIVE MergedOver(_)
MergedOver(S) ==
    IF S = {} THEN 0
    ELSE merged.map[CHOOSE k \in S : TRUE]
           + MergedOver(S \ {CHOOSE k \in S : TRUE})

\* C19: the distribution handed to a chart maps labels to counts: every
\* label is normalize_chart_label of an input key, every key has its label,
\* no label occurs twice, and the count of a label is the sum over the keys
\* that normalize to it.
C19_ChartIsLabelMapping ==
    DistributionDrawn =>
       /\ Len(chart_names) = Len(chart_values)
       /\ \A i \in 1..Len(chart_names) : KeysLabelled(chart_names[i]) # {}
       /\ \A k \in DOMAIN merged.map :
             \E i \in 1..Len(chart_names) :
                chart_names[i] = normalize_chart_label(PyStr(k))
       /\ \A i, j \in 1..Len(chart_names) :
             chart_names[i] = chart_names[j] => i = j
       /\ \A i \in 1..Len(chart_names) :
             chart_values[i] = MergedOver(KeysLabelled(chart_names[i]))


\* C20: parse_daily_registrations merges as merge_json_dicts does: for every
\* column of cells its outcome is that of merge_json_dicts over the
\* safe_json_loads results of the same cells.
C20_DailyMergeIsMerge ==
    (pc = "done" /\ column = COL_DAILY_REG) =>
       combined_daily =
          merge_json_dicts([i \in 1..Len(cells) |-> safe_json_loads(cells[i])])


\* the calendar-latest day of the series that is on or before the end date
LatestDayToEnd ==
    SetMax({KeyDate(pace.dates[i]).day : i \in PointsToEnd})

\* C29: the days that remain are measured from the calendar-latest series
\* date on or before the end date: they are never negative and never more
\* than the days from that date to the end date.
C29_DaysRemainingFromLatestDate ==
    ( /\ EndKnown /\ PointsToEnd # {}
      /\ pace.days_remaining_used.t = "int" ) =>
       /\ pace.days_remaining_used.v >= 0
       /\ pace.days_remaining_used.v <= pace.end_dt.day - LatestDayToEnd


\* what the operation returns for the cells when it is called alone
Alone(fn, cs) ==
    IF fn = "merge" THEN merge_json_dicts(cs)
    ELSE parse_daily_registrations(cs)

\* C21: the merge operations are pure: every input cell stays as the caller
\* made it, every call builds its own result object, a returned result is
\* what the operation gives for the cells when called alone and is not
\* changed by any later or interleaved call, and a call ends in an exception
\* only when the call alone does.
C21_MergeCallsArePure ==
    /\ \A i \in 1..Len(inputs) : heap[i] = inputs[i]
    /\ \A j \in 1..Len(results) :
          /\ results[j].obj \notin 1..Len(inputs)
          /\ heap[results[j].obj].map = results[j].value
          /\ Alone(results[j].fn, inputs) = MapOk(results[j].value)
          /\ \A k \in 1..Len(results) :
                results[k].obj = results[j].obj => k = j
    /\ \A t \in Threads :
          /\ frames[t].st = "raised" =>
                Alone(frames[t].fn, inputs).kind = "raise"
          /\ frames[t].st = "running" =>
                \A j \in 1..Len(results) : results[j].obj # frames[t].res

C21_Witness ==
    /\ Len(results) = 3
    /\ results[1].overlapped /\ results[2].overlapped
    /\ results[1].fn = "merge" /\ results[2].fn = "daily"
    /\ results[1].value = (<<"a">> :> 3 @@ <<"b">> :> 0)
    /\ results[2].value = (<<"a">> :> 3 @@ <<"b">> :> 3)
    /\ heap[results[1].obj].map = results[1].value


----------------------------------------------------------------------------
(* Properties of the login of two clients (SpecAuth) *)

\* C26: a client is authenticated only after it submitted valid credentials
\* itself, and the role of its session is the role of the credentials it
\* submitted
C26_RoleOfOwnCredentials ==
    \A c \in Clients :
        sessions[c].authenticated =>
            /\ submitted[c].t = "str"
            /\ sessions[c].role = submitted[c]


----------------------------------------------------------------------------
(* Properties of the login and of the sheet connection of one client       *)
(* (SpecConnect)                                                            *)

\* the session a refresh of the page would start now
Refreshed == NewSession(auth_file, pinned_file)

C30Step ==
    /\ (event'.name = "ClickConnect" /\ Strip(event'.arg.s) # <<>>) =>
           IF extract_sheet_id(event'.arg.s) = <<>>
           THEN /\ sessions'["c1"].df_raw = sessions["c1"].df_raw
                /\ sessions'["c1"].sheet_id_input = sessions["c1"].sheet_id_input
           ELSE IF event'.loaded.t # "None"
           THEN /\ sessions'["c1"].df_raw = event'.loaded
                /\ sessions'["c1"].sheet_id_input = Strip(event'.arg.s)
           ELSE /\ sessions'["c1"].df_raw = PyNone
                /\ ConnectPrompt(sessions'["c1"])
    /\ (/\ event'.name \in {"EditSheetBox", "BackToDashboard", "SubmitLogin"}
        /\ sessions["c1"].df_raw.t = "None"
        /\ event'.loaded.t = "None") =>
           /\ sessions'["c1"].df_raw = sessions["c1"].df_raw
           /\ sessions'["c1"].sheet_id_input = sessions["c1"].sheet_id_input
           /\ sessions'["c1"].selected_initiatives
                  = sessions["c1"].selected_initiatives
           /\ sessions'["c1"].pinned_initiatives
                  = sessions["c1"].pinned_initiatives
    /\ (event'.name = "Load" /\ event'.loaded.t = "None") =>
           /\ sessions'["c1"].df_raw = PyNone
           /\ sessions'["c1"].sheet_id_input = DEFAULT_SHEET_URL
           /\ sessions'["c1"].selected_initiatives = <<>>
           /\ sessions'["c1"].pinned_initiatives
                  = load_pinned_from_file(pinned_file)

\* C30: a click on Connect whose text gives no sheet ID leaves the loaded
\* data and the stored sheet input as they were; when the load succeeds the
\* loaded data is the new frame and the stored input the trimmed text; when
\* the load fails the previous data is dropped and the connect prompt is
\* shown; an auto-connect whose load fails leaves the state as it was
C30_ConnectOutcomes == [][C30Step]_vars

\* Connect loaded the other sheet, typed with blanks around its ID
C30_Witness ==
    /\ event.name = "ClickConnect"
    /\ event.arg.s # Strip(event.arg.s)
    /\ event.loaded.t = "df"
    /\ sessions["c1"].df_raw = event.loaded
    /\ sessions["c1"].df_raw.sheet = OtherId
    /\ sessions["c1"].sheet_id_input = OtherId


\* C23: the sheet box and Connect are drawn only for a role that can edit
\* the sheet, and whenever the logged-in role is viewer the data shown was
\* loaded from the default sheet
C23_ViewerSeesDefaultSheet ==
    (OnDashboard(sessions["c1"]) /\ RoleOr(sessions["c1"]) = ViewerName) =>
        /\ sessions["c1"].box = PyNone
        /\ sessions["c1"].df_raw.t = "df" =>
               sessions["c1"].df_raw.sheet = DefaultId


----------------------------------------------------------------------------
(* Properties of the settings pages (SpecSettings) *)

\* C22: a session whose role is viewer is read-only: nothing a viewer does
\* changes the persisted event dashboard configuration
C22_ViewerChangesNoConfig ==
    [][(/\ sessions["c1"].open /\ sessions["c1"].authenticated
        /\ RoleOr(sessions["c1"]) = ViewerName)
           => config_file' = config_file]_vars

\* the registration target stored for an initiative
StoredTarget(f, name) ==
    get_event_config(load_event_dashboard_config(f), name).registration_target

C27Step ==
    /\ event'.name \in {"Save", "PageSave"} =>
           /\ \A other \in Initiatives \ {event'.arg.s} :
                  EntryOf(load_event_dashboard_config(config_file'), other)
                      = EntryOf(load_event_dashboard_config(config_file),
                                other)
           /\ StoredTarget(config_file, event'.arg.s) # 0 =>
                  StoredTarget(config_file', event'.arg.s) # 0
    /\ event'.name \in {"Cancel", "PageCancel"} =>
           config_file' = config_file

\* C27: saving the settings of one initiative, from either settings page,
\* leaves the entry of every other initiative as it was and never loses the
\* registration target stored for the saved initiative; Cancel leaves the
\* configuration as it was
C27_SavePreservesTargets == [][C27Step]_vars


----------------------------------------------------------------------------
(* Properties of the event selector (SpecSelect) *)

\* C25: an initiative that was pinned and not unpinned since is in the
\* pinned list of every later re-initialised session whose sheet lists it
C25_PinsSurviveRefresh ==
    event.name = "Load" =>
        \A opt \in kept_pins :
            opt \in Listed(sessions["c1"]) =>
                opt \in Elements(sessions["c1"].pinned_initiatives)

C28Step ==
    event'.name = "ClickTile" =>
        sessions'["c1"].selected_initiatives
            = IF event'.arg.s \in Elements(sessions["c1"].selected_initiatives)
              THEN <<>>
              ELSE <<event'.arg.s>>

\* C28: the selection holds at most one initiative, every selected
\* initiative is among the options of the loaded sheet when the dashboard
\* content is computed, a click on the selected tile empties the selection
\* and a click on another tile makes it the only selected initiative
C28_SingleListedSelection ==
    /\ [](/\ Len(sessions["c1"].selected_initiatives) <= 1
          /\ ContentShown(sessions["c1"]) =>
                 Elements(sessions["c1"].selected_initiatives)
                     \subseteq Listed(sessions["c1"]))
    /\ [][C28Step]_vars

\* the tile of "b" was clicked while "a" was selected, on a reloaded sheet
C28_Witness ==
    /\ event.name = "ClickTile"
    /\ event.arg = PyStr(<<"b">>)
    /\ sessions["c1"].selected_initiatives = <<<<"b">>>>
    /\ ContentShown(sessions["c1"])
    /\ sessions["c1"].pinned_initiatives # <<>>

====
